---- MODULE Spec2Model ----
(***************************************************************************)
(* A model of the pongo template engine: dynamic identifier resolution,    *)
(* expression evaluation with filter chains, and the cursor-driven         *)
(* execution of the flat node list (if / for / block / extends / include). *)
(*                                                                         *)
(* Strings of the program are modelled as sequences of one-character       *)
(* strings, so that splitting, indexing, escaping and literal conversion   *)
(* are computed the way the code computes them.                            *)
(***************************************************************************)
EXTENDS Integers, Sequences, FiniteSets, TLC

VARIABLES
    name,       \* resolveIdent: the dotted identifier being resolved
    resolved,   \* resolveIdent: <<>> before the call, <<result>> after it
    input,      \* what a run is given: the template source, the sources the
                \* Locator returns, the Contexts of the renders
    templates,  \* the parsed templates [name, nodes]; templates[1] is the
                \* one made by FromString, the others are the bases and
                \* includes created while rendering
    ecs,        \* the execution contexts [template, node_pos, internal_context]
    internal_contexts,  \* the maps the execution contexts refer to
    ctx,        \* the Context (variable name -> value) of the running call
    heap,       \* objects reachable through pointers (*Person, *forContext)
    stack,      \* the call stack of the render
    ret,        \* what the last returned call returned
    renders,    \* the number of Execute calls so far
    gs,         \* the goroutines of two concurrent evaluations
    response,   \* the http.ResponseWriter w of ExecuteRW: the byte slices
                \* written to it, one per call of w.Write
    parser      \* Template.parse: the state function to call next and the
                \* tokenizer fields of the Template [state, t]

vars == <<name, resolved, input, templates, ecs, internal_contexts, ctx, heap,
          stack, ret, renders, gs, parser, response>>

(***************************************************************************)
(* Characters and strings                                                  *)
(***************************************************************************)
Digits == {"0", "1", "2", "3", "4", "5", "6", "7", "8", "9"}

Lower == {"a", "b", "c", "d", "e", "f", "g", "h", "i", "j", "k", "l", "m",
          "n", "o", "p", "q", "r", "s", "t", "u", "v", "w", "x", "y", "z"}

Upper == {"A", "B", "C", "D", "E", "F", "G", "H", "I", "J", "K", "L", "M",
          "N", "O", "P", "Q", "R", "S", "T", "U", "V", "W", "X", "Y", "Z"}

\* exprIdentChecker: ^[A-Za-z0-9_]+[A-Za-z0-9_.]*$
exprIdentChecker(in) ==
    /\ Len(in) >= 1
    /\ in[1] \in (Lower \cup Upper \cup Digits \cup {"_"})
    /\ \A i \in 1..Len(in) : in[i] \in (Lower \cup Upper \cup Digits \cup {"_", "."})

WhiteSpace == {" ", "\t", "\n", "\r"}

\* len(strings.TrimSpace(s)) == 0
IsBlank(s) == \A i \in 1..Len(s) : s[i] \in WhiteSpace

RECURSIVE Split(_, _)
\* strings.Split(s, sep) for a one-character separator
Split(s, sep) ==
    IF \A i \in 1..Len(s) : s[i] # sep
    THEN <<s>>
    ELSE LET i == CHOOSE i \in 1..Len(s) :
                      s[i] = sep /\ \A j \in 1..(i - 1) : s[j] # sep
         IN  <<SubSeq(s, 1, i - 1)>> \o Split(SubSeq(s, i + 1, Len(s)), sep)

RECURSIVE Join(_, _)
\* strings.Join(items, sep)
Join(items, sep) ==
    IF Len(items) = 0 THEN <<>>
    ELSE IF Len(items) = 1 THEN items[1]
    ELSE items[1] \o sep \o Join(Tail(items), sep)

DigitVal(c) ==
    CASE c = "0" -> 0 [] c = "1" -> 1 [] c = "2" -> 2 [] c = "3" -> 3
      [] c = "4" -> 4 [] c = "5" -> 5 [] c = "6" -> 6 [] c = "7" -> 7
      [] c = "8" -> 8 [] c = "9" -> 9

RECURSIVE Atoi(_)
\* strconv.Atoi on a string of decimal digits
Atoi(s) ==
    IF Len(s) = 0 THEN 0
    ELSE 10 * Atoi(SubSeq(s, 1, Len(s) - 1)) + DigitVal(s[Len(s)])

(***************************************************************************)
(* Values (Go's interface{}): a kind tag k and a payload v                 *)
(***************************************************************************)
VString(s) == [k |-> "string", v |-> s]
VInt(n) == [k |-> "int", v |-> n]
VBool(b) == [k |-> "bool", v |-> b]
VFloat(s) == [k |-> "float", v |-> s]
VSlice(xs) == [k |-> "slice", v |-> xs]
VMap(m) == [k |-> "map", v |-> m]
VStruct(t, f) == [k |-> "struct", v |-> [type |-> t, fields |-> f]]
VPtr(id) == [k |-> "ptr", v |-> id]
\* exprIdent: an identifier awaiting lookup in the Context
VIdent(s) == [k |-> "ident", v |-> s]
\* a reflect.Value holding a bound method (receiver type and method name)
VMethod(t, m) == [k |-> "method", v |-> [type |-> t, method |-> m]]
\* a reflect.Value held in an interface{} (what Index/MapIndex/FieldByName return)
VReflect == [k |-> "reflect.Value", v |-> 0]

EmptyString == VString(<<>>)

\* resolvePointer
resolvePointer(v, hp) == IF v.k = "ptr" THEN hp[v.v] ELSE v

\* convertTypeString: a literal or an identifier from its source text
convertTypeString(in) ==
    IF Len(in) = 0 THEN [err |-> "panic", val |-> EmptyString]
    ELSE IF in[1] = "\""
    THEN IF in[Len(in)] # "\"" THEN [err |-> "String not closed", val |-> EmptyString]
         ELSE IF Len(in) <= 1 THEN [err |-> "String malformed", val |-> EmptyString]
         ELSE [err |-> "", val |-> VString(SubSeq(in, 2, Len(in) - 1))]
    ELSE IF in = <<"t", "r", "u", "e">> THEN [err |-> "", val |-> VBool(TRUE)]
    ELSE IF in = <<"f", "a", "l", "s", "e">> THEN [err |-> "", val |-> VBool(FALSE)]
    ELSE IF in[1] \in Digits
    THEN IF \E i \in 1..Len(in) : in[i] = "."
         THEN IF /\ Cardinality({i \in 1..Len(in) : in[i] = "."}) = 1
                 /\ \A i \in 1..Len(in) : in[i] \in Digits \cup {"."}
              THEN [err |-> "", val |-> VFloat(in)]
              ELSE [err |-> "Float is not valid", val |-> EmptyString]
         ELSE IF \A i \in 1..Len(in) : in[i] \in Digits
              THEN [err |-> "", val |-> VInt(Atoi(in))]
              ELSE [err |-> "Integer is not valid", val |-> EmptyString]
    ELSE IF exprIdentChecker(in) THEN [err |-> "", val |-> VIdent(in)]
    ELSE [err |-> "Identifier must only contain A-Za-z0-9_", val |-> EmptyString]

(***************************************************************************)
(* Struct types of the program and of its test fixture                     *)
(***************************************************************************)
sName == <<"N", "a", "m", "e">>
sAge == <<"A", "g", "e">>
sFriends == <<"F", "r", "i", "e", "n", "d", "s">>
sAccounts == <<"A", "c", "c", "o", "u", "n", "t", "s">>
sNotexported == <<"n", "o", "t", "e", "x", "p", "o", "r", "t", "e", "d">>
sSayHello == <<"S", "a", "y", "H", "e", "l", "l", "o">>
sSayHelloTo == <<"S", "a", "y", "H", "e", "l", "l", "o", "T", "o">>
sDefault == <<"d", "e", "f", "a", "u", "l", "t">>
sCounter == <<"C", "o", "u", "n", "t", "e", "r">>
sCounter1 == <<"C", "o", "u", "n", "t", "e", "r", "1">>
sMax == <<"M", "a", "x">>
sMax1 == <<"M", "a", "x", "1">>
sFirst == <<"F", "i", "r", "s", "t">>
sLast == <<"L", "a", "s", "t">>

\* The methods of *Person (both have pointer receivers): name -> NumIn
PersonMethods == (sSayHello :> 0) @@ (sSayHelloTo :> 2)

\* reflect.ValueOf(unresolved_value).MethodByName(attr).  Only a *Person has
\* methods among the values of the model; a Person value has none (pointer
\* receivers), and neither has a forContext.  A reflect.Value stored after an
\* index, key or field step has only the methods of reflect.Value itself,
\* whose names are not among the identifiers of the model.
MethodByName(unres, attr, hp) ==
    IF /\ unres.k = "ptr"
       /\ hp[unres.v].v.type = "Person"
       /\ attr \in DOMAIN PersonMethods
    THEN [valid |-> TRUE, numIn |-> PersonMethods[attr], m |-> VMethod("Person", attr)]
    ELSE [valid |-> FALSE, numIn |-> 0, m |-> VMethod("", attr)]

sHelloFlo == <<"H", "e", "l", "l", "o", " ", "F", "l", "o", "!">>

\* method.Call(args): the results of SayHello / SayHelloTo.  reflect panics
\* when an argument is not assignable to the string parameter.
CallMethod(m, args) ==
    IF m.v.method = sSayHello
    THEN [panic |-> FALSE, results |-> <<VString(sHelloFlo)>>]
    ELSE IF \E i \in 1..Len(args) : args[i].k # "string"
    THEN [panic |-> TRUE, results |-> <<>>]
    ELSE [panic |-> FALSE,
          results |-> <<VString(<<"H", "e", "l", "l", "o", " ", "t", "o", " ">> \o args[1].v
                                \o <<" ", "a", "n", "d", " ">> \o args[2].v
                                \o <<" ", "f", "r", "o", "m", " ", "F", "l", "o", "!">>)>>]

\* rv.FieldByName(attr): valid when the field exists; CanInterface only when
\* the field is exported (its name starts with an upper-case letter)
FieldByName(value, attr) ==
    IF attr \in DOMAIN value.v.fields
    THEN [valid |-> TRUE, canInterface |-> attr[1] \in Upper, val |-> value.v.fields[attr]]
    ELSE [valid |-> FALSE, canInterface |-> FALSE, val |-> EmptyString]

\* rv.MapIndex(key)
MapIndex(value, key) ==
    IF key \in DOMAIN value.v
    THEN [valid |-> TRUE, val |-> value.v[key]]
    ELSE [valid |-> FALSE, val |-> EmptyString]

(***************************************************************************)
(* resolveIdent                                                            *)
(* A result is [err, val, warned]: err = "" is Go's nil error; warned      *)
(* records that one of the "specifier must be ..." warnings of the         *)
(* wrong-specifier-type branches was printed.                              *)
(***************************************************************************)
Res(v) == [err |-> "", val |-> v, warned |-> FALSE]
Warn(v) == [err |-> "", val |-> v, warned |-> TRUE]
Err(msg) == [err |-> msg, val |-> EmptyString, warned |-> FALSE]

RECURSIVE resolveIdent(_, _, _)
RECURSIVE resolveSpecifiers(_, _, _, _, _, _)

\* The wrong-type branch of the struct case: "break sw" leaves the switch and
\* the loop goes on with the next specifier on the unchanged value.
structWrongSpecifier(parts, idx, value, unres, c, hp) ==
    [resolveSpecifiers(parts, idx + 1, value, unres, c, hp) EXCEPT !.warned = TRUE]

\* The wrong-type branch of the map case: return "", nil
mapWrongSpecifier(parts, idx, value, unres, c, hp) == Warn(EmptyString)

\* The index of the array/slice and string cases: the integer specifier, or
\* the integer the raw specifier resolves to in the Context (solved)
indexOfSolved(solved) ==
    IF solved.err = "" /\ solved.val.k = "int"
    THEN [ok |-> TRUE, idx |-> solved.val.v]
    ELSE [ok |-> FALSE, idx |-> 0]

indexOf(specifier, raw, c, hp) ==
    IF specifier.k = "int" THEN [ok |-> TRUE, idx |-> specifier.v]
    ELSE indexOfSolved(resolveIdent(raw, c, hp))

\* case reflect.Array, reflect.Slice and case reflect.String, with the index i
resolveIndexed(parts, idx, value, unres, c, hp, i) ==
    IF ~i.ok THEN Warn(EmptyString)
    ELSE IF i.idx < 0 \/ i.idx >= Len(value.v) THEN Res(EmptyString)
    ELSE IF value.k = "slice"
    THEN resolveSpecifiers(parts, idx + 1, resolvePointer(value.v[i.idx + 1], hp),
                           VReflect, c, hp)
    ELSE resolveSpecifiers(parts, idx + 1, VString(<<value.v[i.idx + 1]>>), unres, c, hp)

\* The value found under a key or in a field (ok: it is valid and can be used)
resolveFound(parts, idx, c, hp, ok, found) ==
    IF ~ok THEN Res(EmptyString)
    ELSE resolveSpecifiers(parts, idx + 1, resolvePointer(found.val, hp), VReflect, c, hp)

\* case reflect.Map: the key is the specifier itself (mi), or else the string
\* it resolves to in the Context (solved)
resolveMapSolved(parts, idx, value, c, hp, solved) ==
    IF solved.err # "" \/ solved.val.k # "string" THEN Res(EmptyString)
    ELSE resolveFound(parts, idx, c, hp, MapIndex(value, solved.val.v).valid,
                      MapIndex(value, solved.val.v))

resolveMapKey(parts, idx, value, c, hp, mi) ==
    IF mi.valid THEN resolveFound(parts, idx, c, hp, TRUE, mi)
    ELSE resolveMapSolved(parts, idx, value, c, hp, resolveIdent(parts[idx], c, hp))

\* case reflect.Struct: the field is named by the specifier itself (fv), or
\* else by the string it resolves to in the Context (solved)
resolveFieldSolved(parts, idx, value, c, hp, solved) ==
    IF solved.err # "" \/ solved.val.k # "string" THEN Res(EmptyString)
    ELSE resolveFound(parts, idx, c, hp,
                      /\ FieldByName(value, solved.val.v).valid
                      /\ FieldByName(value, solved.val.v).canInterface,
                      FieldByName(value, solved.val.v))

resolveField(parts, idx, value, c, hp, fv) ==
    IF fv.valid /\ fv.canInterface THEN resolveFound(parts, idx, c, hp, TRUE, fv)
    ELSE resolveFieldSolved(parts, idx, value, c, hp, resolveIdent(parts[idx], c, hp))

\* The result of a method called in the middle of the name
resolveCalled(parts, idx, c, hp, result) ==
    resolveSpecifiers(parts, idx + 1, resolvePointer(result, hp), result, c, hp)

\* One specifier: the method m of that name if the unresolved value has one,
\* else the switch over the kind of the value
resolveSpecifier(parts, idx, value, unres, c, hp, specifier, m) ==
    IF specifier.k = "ident" /\ m.valid
    THEN IF idx < Len(parts)
         THEN IF m.numIn > 0 THEN Res(EmptyString)
              ELSE resolveCalled(parts, idx, c, hp, CallMethod(m.m, <<>>).results[1])
         ELSE Res(m.m)
    ELSE
    CASE value.k \in {"slice", "string"} ->
            resolveIndexed(parts, idx, value, unres, c, hp,
                           indexOf(specifier, parts[idx], c, hp))
      [] value.k = "map" ->
            IF specifier.k # "ident" THEN mapWrongSpecifier(parts, idx, value, unres, c, hp)
            ELSE resolveMapKey(parts, idx, value, c, hp, MapIndex(value, specifier.v))
      [] value.k = "struct" ->
            IF specifier.k # "ident" THEN structWrongSpecifier(parts, idx, value, unres, c, hp)
            ELSE resolveField(parts, idx, value, c, hp, FieldByName(value, specifier.v))
      [] OTHER -> Res(EmptyString)

\* The specifier as convertTypeString returns it
resolveConverted(parts, idx, value, unres, c, hp, conv) ==
    IF conv.err # "" THEN Res(EmptyString)
    ELSE resolveSpecifier(parts, idx, value, unres, c, hp, conv.val,
                          MethodByName(unres, conv.val.v, hp))

\* The loop over the specifiers (idx is 1-based; Go's idx_specifier is idx - 1)
resolveSpecifiers(parts, idx, value, unres, c, hp) ==
    IF idx > Len(parts) THEN Res(value)
    ELSE IF IsBlank(parts[idx]) THEN Err("Specifier is empty!")
    ELSE resolveConverted(parts, idx, value, unres, c, hp, convertTypeString(parts[idx]))

\* The value of the first part, and the specifiers applied to it
resolveFirst(parts, content, c, hp) ==
    resolveSpecifiers(Tail(parts), 1, resolvePointer(content, hp), content, c, hp)

\* A variant of resolveIdent that treats an absent first part as the empty
\* string and goes on applying the specifiers to it
resolveIdent_AbsentContinues(nm, c, hp) ==
    IF Split(nm, ".")[1] \in DOMAIN c
    THEN resolveFirst(Split(nm, "."), c[Split(nm, ".")[1]], c, hp)
    ELSE resolveFirst(Split(nm, "."), EmptyString, c, hp)

\* resolveIdent(name, ctx): the first part is looked up in the Context, the
\* others are applied to the value one after the other
resolveIdent(nm, c, hp) ==
    IF Split(nm, ".")[1] \notin DOMAIN c THEN Res(EmptyString)
    ELSE resolveFirst(Split(nm, "."), c[Split(nm, ".")[1]], c, hp)


(***************************************************************************)
(* fmt.Sprintf("%v", value)                                                *)
(***************************************************************************)
RECURSIVE Itoa(_)
\* strconv.Itoa
Itoa(n) ==
    IF n < 0 THEN <<"-">> \o Itoa(0 - n)
    ELSE IF n < 10 THEN <<CHOOSE d \in Digits : DigitVal(d) = n>>
    ELSE Itoa(n \div 10) \o <<CHOOSE d \in Digits : DigitVal(d) = n % 10>>

\* The fields of the key/value pair a for loop over a map binds
sKey == <<"K", "e", "y">>
sValue == <<"V", "a", "l", "u", "e">>

\* The fields of a struct type in declaration order
FieldOrder(t) ==
    IF t = "Person" THEN <<sName, sAge, sFriends, sAccounts, sNotexported>>
    ELSE IF t = "KeyValue" THEN <<sKey, sValue>>
    ELSE <<sCounter, sCounter1, sMax, sMax1, sFirst, sLast>>

\* A sequence of the keys of a map, in some order (fmt sorts them; the maps of
\* the model have at most one key)
RECURSIVE KeySeq(_)
KeySeq(keys) ==
    IF keys = {} THEN <<>>
    ELSE LET k == CHOOSE k \in keys : TRUE IN <<k>> \o KeySeq(keys \ {k})

RECURSIVE Sprintv(_, _, _)
\* Sprintv(value, top, hp): top is TRUE for the operand itself, FALSE for a
\* value nested in it (a nested pointer prints as an address)
Sprintv(value, top, hp) ==
    CASE value.k = "string" -> value.v
      [] value.k = "int" -> Itoa(value.v)
      [] value.k = "bool" -> IF value.v THEN <<"t", "r", "u", "e">>
                             ELSE <<"f", "a", "l", "s", "e">>
      [] value.k = "float" -> value.v
      [] value.k = "slice" ->
            <<"[">> \o Join([i \in 1..Len(value.v) |-> Sprintv(value.v[i], FALSE, hp)], <<" ">>)
            \o <<"]">>
      [] value.k = "map" ->
            LET ks == KeySeq(DOMAIN value.v) IN
            <<"m", "a", "p", "[">>
            \o Join([i \in 1..Len(ks) |->
                        ks[i] \o <<":">> \o Sprintv(value.v[ks[i]], FALSE, hp)], <<" ">>)
            \o <<"]">>
      [] value.k = "struct" ->
            LET fo == FieldOrder(value.v.type) IN
            <<"{">> \o Join([i \in 1..Len(fo) |->
                                Sprintv(value.v.fields[fo[i]], FALSE, hp)], <<" ">>)
            \o <<"}">>
      [] value.k = "ptr" ->
            IF top THEN <<"&">> \o Sprintv(hp[value.v], FALSE, hp)
            ELSE <<"0", "x", "c", "0", "0", "0">> \o Itoa(value.v)
      [] value.k = "ident" -> value.v
      [] OTHER -> <<"0", "x", "f", "u", "n", "c">>

(***************************************************************************)
(* Filters                                                                 *)
(***************************************************************************)
sSafe == <<"s", "a", "f", "e">>
sUnsafe == <<"u", "n", "s", "a", "f", "e">>
sLowerF == <<"l", "o", "w", "e", "r">>
sUpperF == <<"u", "p", "p", "e", "r">>
sCapitalize == <<"c", "a", "p", "i", "t", "a", "l", "i", "z", "e">>
sTrimF == <<"t", "r", "i", "m">>
sJoin == <<"j", "o", "i", "n">>
sLength == <<"l", "e", "n", "g", "t", "h">>

\* The filter registry: the names, and those registered with a function
\* ("unsafe" is registered as nil: it is only recorded in the chain context)
\* (striptags, time_format and floatformat are not part of the model)
Filters == {sSafe, sUnsafe, sLowerF, sUpperF, sCapitalize, sDefault, sTrimF, sLength, sJoin}
FilterHasFn(fname) == fname # sUnsafe

\* FilterChainContext.HasVisited(names...)
HasVisited(applied_filters, names) ==
    \E i \in 1..Len(applied_filters) : applied_filters[i] \in names

RECURSIVE Replace(_, _, _)
\* strings.Replace(s, old, new, -1) for a non-empty old
Replace(s, old, new) ==
    IF Len(s) < Len(old) THEN s
    ELSE IF SubSeq(s, 1, Len(old)) = old
    THEN new \o Replace(SubSeq(s, Len(old) + 1, Len(s)), old, new)
    ELSE <<s[1]>> \o Replace(Tail(s), old, new)

\* The three replacements of filterSafe, in their order
htmlEscape(str) ==
    Replace(Replace(Replace(str, <<"&">>, <<"&", "a", "m", "p", ";">>),
                    <<">">>, <<"&", "g", "t", ";">>),
            <<"<">>, <<"&", "l", "t", ";">>)

\* A variant of filterSafe that does not look at the chain context
filterSafe_NoChainCheck(value, args, applied_filters) ==
    IF value.k # "string" THEN [err |-> "", val |-> value]
    ELSE [err |-> "", val |-> VString(htmlEscape(value.v))]

filterSafe(value, args, applied_filters) ==
    IF HasVisited(applied_filters, {sUnsafe, sSafe}) THEN [err |-> "", val |-> value]
    ELSE IF value.k # "string" THEN [err |-> "", val |-> value]
    ELSE [err |-> "", val |-> VString(htmlEscape(value.v))]

UpperSeq == <<"A", "B", "C", "D", "E", "F", "G", "H", "I", "J", "K", "L", "M",
              "N", "O", "P", "Q", "R", "S", "T", "U", "V", "W", "X", "Y", "Z">>
LowerSeq == <<"a", "b", "c", "d", "e", "f", "g", "h", "i", "j", "k", "l", "m",
              "n", "o", "p", "q", "r", "s", "t", "u", "v", "w", "x", "y", "z">>

\* strings.ToLower / strings.ToUpper
ToLower(str) ==
    [i \in 1..Len(str) |->
        IF str[i] \in Upper
        THEN LowerSeq[CHOOSE j \in 1..Len(UpperSeq) : UpperSeq[j] = str[i]]
        ELSE str[i]]
ToUpper(str) ==
    [i \in 1..Len(str) |->
        IF str[i] \in Lower
        THEN UpperSeq[CHOOSE j \in 1..Len(LowerSeq) : LowerSeq[j] = str[i]]
        ELSE str[i]]

filterLower(value, args, applied_filters) ==
    IF value.k # "string" THEN [err |-> "is not of type string", val |-> EmptyString]
    ELSE [err |-> "", val |-> VString(ToLower(value.v))]

filterUpper(value, args, applied_filters) ==
    IF value.k # "string" THEN [err |-> "is not of type string", val |-> EmptyString]
    ELSE [err |-> "", val |-> VString(ToUpper(value.v))]

\* strings.Title: the first letter of every word in upper case
Title(str) ==
    [i \in 1..Len(str) |->
        IF (i = 1 \/ str[i - 1] \notin (Lower \cup Upper \cup Digits \cup {"_"}))
           /\ str[i] \in Lower
        THEN UpperSeq[CHOOSE j \in 1..Len(LowerSeq) : LowerSeq[j] = str[i]]
        ELSE str[i]]

\* strings.TrimSpace
TrimSpace(s) ==
    LET keep == {i \in 1..Len(s) : s[i] \notin WhiteSpace} IN
    IF keep = {} THEN <<>>
    ELSE SubSeq(s, CHOOSE i \in keep : \A j \in keep : i <= j,
                   CHOOSE i \in keep : \A j \in keep : i >= j)

filterCapitalize(value, args, applied_filters) ==
    IF value.k # "string" THEN [err |-> "is not of type string", val |-> EmptyString]
    ELSE [err |-> "", val |-> VString(Title(value.v))]

filterTrim(value, args, applied_filters) ==
    IF value.k # "string" THEN [err |-> "is not of type string", val |-> EmptyString]
    ELSE [err |-> "", val |-> VString(TrimSpace(value.v))]

\* reflect.Zero(reflect.TypeOf(value)).Interface() == value: "true", "false",
\* or "panic" when the dynamic type is not comparable (a slice, a map, a
\* struct with such a field)
ZeroCompare(value) ==
    CASE value.k = "string" -> IF value.v = <<>> THEN "true" ELSE "false"
      [] value.k = "int" -> IF value.v = 0 THEN "true" ELSE "false"
      [] value.k = "bool" -> IF value.v = FALSE THEN "true" ELSE "false"
      [] value.k = "float" ->
            IF \A i \in 1..Len(value.v) : value.v[i] \in {"0", "."} THEN "true" ELSE "false"
      [] value.k = "ident" -> IF value.v = <<>> THEN "true" ELSE "false"
      [] value.k \in {"ptr", "method", "reflect.Value"} -> "false"
      [] value.k = "struct" ->
            IF value.v.type = "Person" THEN "panic"
            ELSE IF \A f \in DOMAIN value.v.fields :
                        value.v.fields[f] \in {VInt(0), VBool(FALSE)}
                 THEN "true" ELSE "false"
      [] OTHER -> "panic"

filterDefault(value, args, applied_filters) ==
    IF Len(args) # 1 THEN [err |-> "Default filter takes only one argument", val |-> EmptyString]
    ELSE IF ZeroCompare(value) = "panic" THEN [err |-> "panic", val |-> EmptyString]
    ELSE IF ZeroCompare(value) = "true" THEN [err |-> "", val |-> args[1]]
    ELSE [err |-> "", val |-> value]

filterLength(value, args, applied_filters) ==
    IF value.k \in {"slice", "string"} THEN [err |-> "", val |-> VInt(Len(value.v))]
    ELSE IF value.k = "map" THEN [err |-> "", val |-> VInt(Cardinality(DOMAIN value.v))]
    ELSE [err |-> "Cannot determine length", val |-> EmptyString]

filterJoin(value, args, applied_filters, hp) ==
    IF Len(args) # 1 THEN [err |-> "Please provide a separator", val |-> EmptyString]
    ELSE IF args[1].k # "string"
    THEN [err |-> "Separator must be of type string", val |-> EmptyString]
    ELSE IF value.k # "slice" THEN [err |-> "Cannot join variable", val |-> EmptyString]
    ELSE [err |-> "",
          val |-> VString(Join([i \in 1..Len(value.v) |-> Sprintv(value.v[i], TRUE, hp)],
                               args[1].v))]

\* filter.fn(value, filter.args, chainCtx)
callFilter(fname, value, args, applied_filters, hp) ==
    CASE fname = sSafe -> filterSafe(value, args, applied_filters)
      [] fname = sLowerF -> filterLower(value, args, applied_filters)
      [] fname = sUpperF -> filterUpper(value, args, applied_filters)
      [] fname = sCapitalize -> filterCapitalize(value, args, applied_filters)
      [] fname = sTrimF -> filterTrim(value, args, applied_filters)
      [] fname = sDefault -> filterDefault(value, args, applied_filters)
      [] fname = sLength -> filterLength(value, args, applied_filters)
      [] fname = sJoin -> filterJoin(value, args, applied_filters, hp)

(***************************************************************************)
(* Expressions: the parsed form is a record                                *)
(*   [root, root_args, filters, negate]                                    *)
(* where filters is a sequence of [name, args] (exprFilterFunc; fn is      *)
(* Filters[name]).  evalValue returns the value together with the          *)
(* expression as the evaluation leaves it: root_args and the args of the   *)
(* filters are assigned during the evaluation.                             *)
(***************************************************************************)
MkExpr(root, root_args, filters, negate) ==
    [root |-> root, root_args |-> root_args, filters |-> filters, negate |-> negate]
MkFilter(fname, args) == [name |-> fname, args |-> args]

\* expr.addFilter for a registered name
addFilter(e, fname) == [e EXCEPT !.filters = Append(@, MkFilter(fname, <<>>))]

RECURSIVE resolveArgs(_, _, _, _)
\* The argument slot i takes the value r the identifier resolves to
resolveArg(args, i, c, hp, r) ==
    IF r.err # "" THEN [err |-> r.err, args |-> args]
    ELSE resolveArgs([args EXCEPT ![i] = r.val], i + 1, c, hp)

\* The loops that resolve identifier arguments from the Context and store
\* the result in the argument slot; an error returns with the slots before it
\* already assigned
resolveArgs(args, i, c, hp) ==
    IF i > Len(args) THEN [err |-> "", args |-> args]
    ELSE IF args[i].k = "ident" THEN resolveArg(args, i, c, hp, resolveIdent(args[i].v, c, hp))
    ELSE resolveArgs(args, i + 1, c, hp)

\* The first part of evalValue: the root and the method call.  A result is
\* [err, val, root_args, ret]; ret says that evalValue returns at this point.
evalCalled(ra, call) ==
    IF call.panic
    THEN [err |-> "panic", val |-> EmptyString, root_args |-> ra.args, ret |-> TRUE]
    ELSE [err |-> "", val |-> call.results[1], root_args |-> ra.args, ret |-> FALSE]

evalMethod(content, ra) ==
    IF ra.err # ""
    THEN [err |-> ra.err, val |-> EmptyString, root_args |-> ra.args, ret |-> TRUE]
    ELSE evalCalled(ra, CallMethod(content.val, ra.args))

evalResolved_ExtraArgsDropped(e, c, hp, content) ==
    IF content.err # ""
    THEN [err |-> content.err, val |-> EmptyString, root_args |-> e.root_args, ret |-> TRUE]
    ELSE IF content.val.k # "method"
    THEN [err |-> "", val |-> content.val, root_args |-> e.root_args, ret |-> FALSE]
    ELSE IF Len(e.root_args) < PersonMethods[content.val.v.method]
    THEN [err |-> "", val |-> EmptyString, root_args |-> e.root_args, ret |-> FALSE]
    ELSE evalMethod(content, resolveArgs(e.root_args, 1, c, hp))

evalResolved(e, c, hp, content) ==
    IF content.err # ""
    THEN [err |-> content.err, val |-> EmptyString, root_args |-> e.root_args, ret |-> TRUE]
    ELSE IF content.val.k # "method"
    THEN [err |-> "", val |-> content.val, root_args |-> e.root_args, ret |-> FALSE]
    ELSE IF Len(e.root_args) # PersonMethods[content.val.v.method]
    THEN [err |-> "", val |-> EmptyString, root_args |-> e.root_args, ret |-> FALSE]
    ELSE evalMethod(content, resolveArgs(e.root_args, 1, c, hp))

evalRoot(e, c, hp) ==
    IF e.root.k # "ident"
    THEN [err |-> "", val |-> e.root, root_args |-> e.root_args, ret |-> FALSE]
    ELSE evalResolved(e, c, hp, resolveIdent(e.root.v, c, hp))

RECURSIVE applyFilters(_, _, _, _, _, _)
\* The result r of filter j
applyFiltered(filters, j, applied_filters, c, hp, r) ==
    IF r.err # "" THEN [err |-> "Filter failed", val |-> EmptyString, filters |-> filters]
    ELSE applyFilters(filters, j + 1, r.val, Append(applied_filters, filters[j].name), c, hp)

\* Filter j with its resolved arguments ra
applyFilter(filters, j, value, applied_filters, c, hp, ra) ==
    IF ra.err # ""
    THEN [err |-> ra.err, val |-> EmptyString, filters |-> [filters EXCEPT ![j].args = ra.args]]
    ELSE applyFiltered([filters EXCEPT ![j].args = ra.args], j, applied_filters, c, hp,
                       callFilter(filters[j].name, value, ra.args, applied_filters, hp))

\* The loop over e.filters: applied_filters is the chain context
applyFilters(filters, j, value, applied_filters, c, hp) ==
    IF j > Len(filters) THEN [err |-> "", val |-> value, filters |-> filters]
    ELSE IF ~FilterHasFn(filters[j].name)
    THEN applyFilters(filters, j + 1, value, Append(applied_filters, filters[j].name), c, hp)
    ELSE applyFilter(filters, j, value, applied_filters, c, hp,
                     resolveArgs(filters[j].args, 1, c, hp))

\* The negation at the end of evalValue
negateValue(value) ==
    IF value.k = "bool" THEN [err |-> "", val |-> VBool(~value.v)]
    ELSE IF ZeroCompare(value) = "panic" THEN [err |-> "panic", val |-> EmptyString]
    ELSE [err |-> "", val |-> VBool(ZeroCompare(value) = "true")]

\* What evalValue returns: r is [err, val], e the expression as it is left
evalReturn(r, e) == [err |-> r.err, val |-> r.val, e |-> e]

\* evalValue after the filters (f)
evalFiltered(e, f) ==
    IF f.err # ""
    THEN [err |-> f.err, val |-> EmptyString, e |-> [e EXCEPT !.filters = f.filters]]
    ELSE IF e.negate THEN evalReturn(negateValue(f.val), [e EXCEPT !.filters = f.filters])
    ELSE [err |-> "", val |-> f.val, e |-> [e EXCEPT !.filters = f.filters]]

\* evalValue after the root (r)
evalRooted(e, c, hp, r) ==
    IF r.ret
    THEN [err |-> r.err, val |-> EmptyString, e |-> [e EXCEPT !.root_args = r.root_args]]
    ELSE evalFiltered([e EXCEPT !.root_args = r.root_args],
                      applyFilters(e.filters, 1, r.val, <<>>, c, hp))

evalValue(e, c, hp) == evalRooted(e, c, hp, evalRoot(e, c, hp))

\* fmt.Sprintf("%v", value) of the value r that evalValue returns
evalPrinted(r, hp) ==
    IF r.err # "" THEN [err |-> r.err, out |-> <<>>, e |-> r.e]
    ELSE [err |-> "", out |-> Sprintv(r.val, TRUE, hp), e |-> r.e]

evalString(e, c, hp) == evalPrinted(evalValue(e, c, hp), hp)

(***************************************************************************)
(* Parsing an expression: splitArgs, expr.parse, newExpr                   *)
(***************************************************************************)
\* strings.HasPrefix, strings.Contains
HasPrefix(s, prefix) == Len(s) >= Len(prefix) /\ SubSeq(s, 1, Len(prefix)) = prefix
Contains(s, sub) ==
    \E i \in 1..(Len(s) - Len(sub) + 1) : SubSeq(s, i, i + Len(sub) - 1) = sub

\* strings.SplitN(s, sep, 2) for a one-character sep
SplitN2(s, sep) ==
    IF \E i \in 1..Len(s) : s[i] = sep
    THEN LET i == CHOOSE i \in 1..Len(s) : s[i] = sep /\ \A j \in 1..(i - 1) : s[j] # sep
         IN  <<SubSeq(s, 1, i - 1), SubSeq(s, i + 1, Len(s))>>
    ELSE <<s>>

RECURSIVE splitArgsLoop(_, _, _, _, _, _, _)
\* The loop of splitArgs: pos is the 0-based position in buf, pc the previous
\* character as the loop last set it
splitArgsLoop(buf, pos, argbuf, pc0, in_string, res, sep) ==
    IF pos >= Len(buf) THEN (IF Len(argbuf) > 0 THEN Append(res, argbuf) ELSE res)
    ELSE LET c == buf[pos + 1]
             pc == IF pos > 0 THEN buf[pos] ELSE pc0
             escaped == (pc = "\\")
         IN  IF c = "\"" /\ ~escaped
             THEN IF in_string
                  THEN splitArgsLoop(SubSeq(buf, pos + 2, Len(buf)), 0,
                                     argbuf \o SubSeq(buf, 1, pos + 1), pc, FALSE, res, sep)
                  ELSE splitArgsLoop(buf, pos + 1, argbuf, pc, TRUE, res, sep)
             ELSE IF in_string
             THEN splitArgsLoop(buf, pos + 1, argbuf, pc, in_string, res, sep)
             ELSE IF c = sep
             THEN splitArgsLoop(SubSeq(buf, pos + 2, Len(buf)), 0, <<>>, pc, in_string,
                                Append(res, argbuf), sep)
             ELSE splitArgsLoop(buf, pos + 1, argbuf \o <<c>>, pc, in_string, res, sep)

splitArgs(in, sep) == splitArgsLoop(in, 0, <<>>, "", FALSE, <<>>, sep)

RECURSIVE convertArgs(_, _, _)
convertArg(split_args, i, acc, a) ==
    IF a.err # "" THEN [err |-> a.err, args |-> acc]
    ELSE convertArgs(split_args, i + 1, Append(acc, a.val))

\* The loops "for _, arg := range _split_args": the first error is returned
convertArgs(split_args, i, acc) ==
    IF i > Len(split_args) THEN [err |-> "", args |-> acc]
    ELSE convertArg(split_args, i, acc, convertTypeString(split_args[i]))

RECURSIVE parseFilters(_, _, _)
\* The filter of a part, with its converted arguments
parseFilterNamed(parts, i, e, filtername, args) ==
    IF args.err # "" THEN [err |-> args.err, e |-> e]
    ELSE IF filtername \notin Filters
    THEN [err |-> "Filter not found", e |-> e, name |-> filtername]
    ELSE parseFilters(parts, i + 1,
                      [e EXCEPT !.filters = Append(@, MkFilter(filtername, args.args))])

\* A part "name:args", split at the first colon
parseFilterArgs(parts, i, e, filter_args) ==
    parseFilterNamed(parts, i, e, filter_args[1],
                     convertArgs(splitArgs(filter_args[2], ","), 1, <<>>))

parseFilter(parts, i, e, part) ==
    IF Contains(part, <<":">>) THEN parseFilterArgs(parts, i, e, SplitN2(part, ":"))
    ELSE parseFilterNamed(parts, i, e, part, [err |-> "", args |-> <<>>])

\* The loop over parts[1:] of expr.parse
parseFilters(parts, i, e) ==
    IF i > Len(parts) THEN [err |-> "", e |-> e]
    ELSE parseFilter(parts, i, e, TrimSpace(parts[i]))

\* The root with its converted arguments (args) and its converted name (id)
parseIdent(negate, parts, args, id) ==
    IF args.err # "" THEN [err |-> args.err, e |-> MkExpr(EmptyString, <<>>, <<>>, negate)]
    ELSE IF id.err # "" THEN [err |-> id.err, e |-> MkExpr(EmptyString, <<>>, <<>>, negate)]
    ELSE parseFilters(parts, 2, MkExpr(id.val, args.args, <<>>, negate))

\* A root "name:args", split at the first colon
parseRootArgs(negate, parts, root_args) ==
    parseIdent(negate, parts, convertArgs(splitArgs(root_args[2], ","), 1, <<>>),
               convertTypeString(root_args[1]))

parseRoot(negate, parts, root) ==
    IF Len(root) <= 0
    THEN [err |-> "Identifier is an empty string", e |-> MkExpr(EmptyString, <<>>, <<>>, negate)]
    ELSE IF ~HasPrefix(root, <<"\"">>) /\ Contains(root, <<":">>)
    THEN parseRootArgs(negate, parts, SplitN2(root, ":"))
    ELSE parseIdent(negate, parts, [err |-> "", args |-> <<>>], convertTypeString(root))

parseParts(negate, parts) == parseRoot(negate, parts, TrimSpace(parts[1]))

\* expr.parse: the leading "!" and the parts between "|"
parseRaw(raw) ==
    parseParts(HasPrefix(raw, <<"!">>),
               Split(IF HasPrefix(raw, <<"!">>) THEN Tail(raw) ELSE raw, "|"))

\* newExpr: expr.parse on the trimmed raw text
newExpr(in) == parseRaw(TrimSpace(in))

\* autosafe appends "safe"
autosafeExpr(r, autosafe) ==
    IF r.err # "" THEN r
    ELSE IF autosafe THEN [err |-> "", e |-> addFilter(r.e, sSafe)]
    ELSE r

\* addFilterNode: the expression of a {{ }} node
filterNodeExpr(content, autosafe) == autosafeExpr(newExpr(TrimSpace(content)), autosafe)

(***************************************************************************)
(* Conditions of the if tag: compMap, evalOperation, evalCondArg           *)
(***************************************************************************)
\* strings.SplitN(s, sep, 2) for a separator of any length, when s contains it
SplitN2s(s, sep) ==
    LET i == CHOOSE i \in 1..(Len(s) - Len(sep) + 1) :
                 /\ SubSeq(s, i, i + Len(sep) - 1) = sep
                 /\ \A j \in 1..(i - 1) : SubSeq(s, j, j + Len(sep) - 1) # sep
    IN  <<SubSeq(s, 1, i - 1), SubSeq(s, i + Len(sep), Len(s))>>

\* The operators of the two classes, in the order evalCondArg passes them
AndOrOps == <<<<"&", "&">>, <<"|", "|">>>>
CompareOps == <<<<"=", "=">>, <<"!", "=">>, <<"<", ">">>, <<">", "=">>, <<"<", "=">>, <<">">>, <<"<">>>>

containsAnyOperator(where, ops) == \E i \in 1..Len(ops) : Contains(where, ops[i])

\* The first operator of ops that occurs in where (the loop of evalOperation)
FirstOperator(where, ops) ==
    ops[CHOOSE i \in 1..Len(ops) :
            Contains(where, ops[i]) /\ \A j \in 1..(i - 1) : ~Contains(where, ops[j])]


\* The number a value of kind int or float stands for, in thousandths (the
\* floats of the model have at most three decimals)
Thousandths(v) ==
    IF v.k = "int" THEN v.v * 1000
    ELSE LET parts == Split(v.v, ".")
             frac == IF Len(parts) > 1 THEN SubSeq(parts[2] \o <<"0", "0", "0">>, 1, 3) ELSE <<"0", "0", "0">>
         IN  Atoi(parts[1]) * 1000 + Atoi(frac)

\* a == b on interface values: "true", "false", or "panic" when both have the
\* same dynamic type and that type is not comparable
InterfaceEq(a, b) ==
    IF a.k # b.k THEN "false"
    ELSE IF a.k \in {"slice", "map"} THEN "panic"
    ELSE IF a.k = "struct" /\ a.v.type # b.v.type THEN "false"
    ELSE IF a.k = "struct" /\ a.v.type = "Person" THEN "panic"
    ELSE IF a.k = "float" THEN (IF Thousandths(a) = Thousandths(b) THEN "true" ELSE "false")
    ELSE IF a = b THEN "true" ELSE "false"

IsNumber(v) == v.k \in {"int", "float"}

\* compMap[op](a, b)
compMap(op, a, b) ==
    CASE op = <<"=", "=">> ->
            IF InterfaceEq(a, b) = "panic" THEN [err |-> "panic", val |-> VBool(FALSE)]
            ELSE [err |-> "", val |-> VBool(InterfaceEq(a, b) = "true")]
      [] op \in {<<"!", "=">>, <<"<", ">">>} ->
            IF InterfaceEq(a, b) = "panic" THEN [err |-> "panic", val |-> VBool(FALSE)]
            ELSE [err |-> "", val |-> VBool(InterfaceEq(a, b) = "false")]
      [] op = <<"&", "&">> ->
            [err |-> "", val |-> VBool(a.k = "bool" /\ b.k = "bool" /\ a.v /\ b.v)]
      [] op = <<"|", "|">> ->
            [err |-> "", val |-> VBool(a.k = "bool" /\ b.k = "bool" /\ (a.v \/ b.v))]
      [] op = <<">", "=">> ->
            [err |-> "",
             val |-> VBool(IsNumber(a) /\ IsNumber(b) /\ Thousandths(a) >= Thousandths(b))]
      [] op = <<"<", "=">> ->
            [err |-> "",
             val |-> VBool(IsNumber(a) /\ IsNumber(b) /\ Thousandths(a) <= Thousandths(b))]
      [] op = <<"<">> ->
            [err |-> "",
             val |-> VBool(IsNumber(a) /\ IsNumber(b) /\ Thousandths(a) < Thousandths(b))]
      [] op = <<">">> ->
            [err |-> "",
             val |-> VBool(IsNumber(a) /\ IsNumber(b) /\ Thousandths(a) > Thousandths(b))]

RECURSIVE evalCondArg(_, _, _)
RECURSIVE evalOperation(_, _, _, _)

\* compMap[op](e1, e2) of the evaluated operands
evalCompared(op, e1, e2) ==
    IF e1.err # "" THEN e1
    ELSE IF e2.err # "" THEN e2
    ELSE compMap(op, e1.val, e2.val)

evalOperands(c, hp, op, args) ==
    evalCompared(op, evalCondArg(c, args[1], hp), evalCondArg(c, args[2], hp))

evalOperator(where, c, hp, op) == evalOperands(c, hp, op, SplitN2s(where, op))

evalOperation(where, c, hp, ops) == evalOperator(where, c, hp, FirstOperator(where, ops))

evalCondValue(r) == [err |-> r.err, val |-> r.val]

evalCondExpr(c, hp, e) ==
    IF e.err # "" THEN [err |-> e.err, val |-> VBool(FALSE)]
    ELSE evalCondValue(evalValue(e.e, c, hp))

evalCondArg(c, in, hp) ==
    IF containsAnyOperator(in, AndOrOps) THEN evalOperation(in, c, hp, AndOrOps)
    ELSE IF containsAnyOperator(in, CompareOps) THEN evalOperation(in, c, hp, CompareOps)
    ELSE evalCondExpr(c, hp, newExpr(in))

(***************************************************************************)
(* Tags registry                                                           *)
(***************************************************************************)
sIf == <<"i", "f">>
sElse == <<"e", "l", "s", "e">>
sEndif == <<"e", "n", "d", "i", "f">>
sFor == <<"f", "o", "r">>
sEndfor == <<"e", "n", "d", "f", "o", "r">>
sBlock == <<"b", "l", "o", "c", "k">>
sEndblock == <<"e", "n", "d", "b", "l", "o", "c", "k">>
sExtends == <<"e", "x", "t", "e", "n", "d", "s">>
sInclude == <<"i", "n", "c", "l", "u", "d", "e">>
sTrim == <<"t", "r", "i", "m">>
sEndtrim == <<"e", "n", "d", "t", "r", "i", "m">>
sRemove == <<"r", "e", "m", "o", "v", "e">>
sEndremove == <<"e", "n", "d", "r", "e", "m", "o", "v", "e">>

\* The registered names; those registered with a handler (the others are
\* placeholders); the handlers with an Ignore hook
Tags == {sIf, sElse, sEndif, sFor, sEndfor, sBlock, sEndblock, sExtends, sInclude,
         sTrim, sEndtrim, sRemove, sEndremove}
TagHasHandler(tagname) == tagname \in {sIf, sFor, sBlock, sExtends, sInclude, sTrim, sRemove}
TagHasIgnore(tagname) == tagname \in {sIf, sFor, sTrim, sRemove}

(***************************************************************************)
(* The tokenizer: the state functions processContent / processComment /    *)
(* processFilter / processTag over the record                              *)
(*   [pos, start, length, line, col, nodes, parseErr, parseErrArg]         *)
(* (positions are 0-based as in the code; parseErr is the text of the      *)
(* error without the name it quotes, parseErrArg that name).  A node is a  *)
(* record                                                                  *)
(*   [type, line, col, content, e, tagname, tagargs].                      *)
(***************************************************************************)
NoExpr == MkExpr(EmptyString, <<>>, <<>>, FALSE)

hasReachedEnd(raw, t, rel) == t.pos + rel >= Len(raw)
getChar(raw, t, rel) == raw[t.pos + rel + 1]

updatePosition(raw, t) ==
    IF hasReachedEnd(raw, t, 0) THEN t
    ELSE IF raw[t.pos + 1] = "\n" THEN [t EXCEPT !.line = @ + 1, !.col = 0]
    ELSE [t EXCEPT !.col = @ + 1]

\* fastForward that goes on counting the column after a newline
fastForwardTo_ColumnNotReset(raw, t, last, moved, newlines) ==
    [t EXCEPT !.pos = last,
              !.line = @ + Cardinality(newlines),
              !.col = @ + Cardinality(moved)]

\* fastForward(rel): pos++ and updatePosition, rel times or until the end is
\* reached.  last is the position it stops at, moved the positions at which
\* updatePosition counted a character, newlines those of them with a "\n".
fastForwardTo(raw, t, last, moved, newlines) ==
    [t EXCEPT !.pos = last,
              !.line = @ + Cardinality(newlines),
              !.col = IF newlines = {} THEN @ + Cardinality(moved)
                      ELSE Cardinality({p \in moved : \A q \in newlines : p > q})]

fastForwardOver(raw, t, last, moved) ==
    fastForwardTo(raw, t, last, moved, {p \in moved : raw[p + 1] = "\n"})

fastForwardUntil(raw, t, last) ==
    fastForwardOver(raw, t, last, {p \in (t.pos + 1)..last : p < Len(raw)})

fastForward(raw, t, rel) ==
    fastForwardUntil(raw, t, IF t.pos + rel > Len(raw) THEN Len(raw) ELSE t.pos + rel)

addContentNode(raw, t) ==
    IF t.length = 0 THEN t
    ELSE [t EXCEPT !.nodes = Append(@, [type |-> "content", line |-> t.line, col |-> t.col,
                                        content |-> SubSeq(raw, t.start + 1, t.start + t.length),
                                        e |-> NoExpr, tagname |-> <<>>, tagargs |-> <<>>]),
                   !.start = t.pos, !.length = 0]

\* autosafe is set by newTemplate for every template
addFilterNodeExpr(t, content, r) ==
    IF r.err # ""
    THEN [t EXCEPT !.parseErr = r.err,
                   !.parseErrArg = IF r.err = "Filter not found" THEN r.name ELSE <<>>]
    ELSE [t EXCEPT !.nodes = Append(@, [type |-> "filter", line |-> t.line, col |-> t.col,
                                        content |-> content, e |-> r.e,
                                        tagname |-> <<>>, tagargs |-> <<>>]),
                   !.start = t.pos, !.length = 0]

addFilterNodeContent(t, content) ==
    addFilterNodeExpr(t, content, filterNodeExpr(content, TRUE))

addFilterNode(raw, t) ==
    IF t.length = 0 THEN [t EXCEPT !.parseErr = "Empty filter"]
    ELSE addFilterNodeContent(t, TrimSpace(SubSeq(raw, t.start + 1, t.start + t.length)))

\* addTagNode without the lookup in the tag registry
addTagNodeArgs_AnyName(t, content, args) ==
    [t EXCEPT !.nodes = Append(@, [type |-> "tag", line |-> t.line, col |-> t.col,
                                   content |-> content, e |-> NoExpr,
                                   tagname |-> args[1],
                                   tagargs |-> IF Len(args) = 2 THEN TrimSpace(args[2])
                                               ELSE <<>>]),
              !.start = t.pos, !.length = 0]

\* args is strings.SplitN(content, " ", 2)
addTagNodeArgs(t, content, args) ==
    IF args[1] \notin Tags
    THEN [t EXCEPT !.parseErr = "Tag does not exist", !.parseErrArg = args[1]]
    ELSE [t EXCEPT !.nodes = Append(@, [type |-> "tag", line |-> t.line, col |-> t.col,
                                        content |-> content, e |-> NoExpr,
                                        tagname |-> args[1],
                                        tagargs |-> IF Len(args) = 2 THEN TrimSpace(args[2])
                                                    ELSE <<>>]),
                   !.start = t.pos, !.length = 0]

addTagNodeContent(t, content) == addTagNodeArgs(t, content, SplitN2(content, " "))

addTagNode(raw, t) ==
    IF t.length = 0 THEN [t EXCEPT !.parseErr = "Empty tag"]
    ELSE addTagNodeContent(t, TrimSpace(SubSeq(raw, t.start + 1, t.start + t.length)))

\* One call of a state function returns the next state function ("" for nil)
\* and the tokenizer record it leaves.  tpl.start = tpl.pos before the return:
startAt(state, t) == [state |-> state, t |-> [t EXCEPT !.start = t.pos]]

\* The end of a node that does not move past the closer
closeNode_StaysAtCloser(raw, t) ==
    IF t.parseErr # "" THEN [state |-> "", t |-> t]
    ELSE startAt("processContent", t)

\* The end of a {{ }} or {% %} node: t is the record after addFilterNode or
\* addTagNode
closeNode(raw, t) ==
    IF t.parseErr # "" THEN [state |-> "", t |-> t]
    ELSE startAt("processContent", fastForward(raw, t, 2))

\* processComment that ends the tokenizing at the end of the text as
\* processContent does, without an error
processComment_EndIsFine(raw, t) ==
    IF hasReachedEnd(raw, t, 0) THEN [state |-> "", t |-> t]
    ELSE IF getChar(raw, t, 0) = "#" /\ hasReachedEnd(raw, t, 1)
    THEN [state |-> "", t |-> t]
    ELSE IF getChar(raw, t, 0) = "#" /\ getChar(raw, t, 1) = "}"
    THEN startAt("processContent", fastForward(raw, t, 2))
    ELSE [state |-> "processComment", t |-> fastForward(raw, t, 1)]

processComment(raw, t) ==
    IF hasReachedEnd(raw, t, 0)
    THEN [state |-> "", t |-> [t EXCEPT !.parseErr = "File end reached within comment"]]
    ELSE IF getChar(raw, t, 0) = "#" /\ hasReachedEnd(raw, t, 1)
    THEN [state |-> "", t |-> [t EXCEPT !.parseErr = "File end reached within comment"]]
    ELSE IF getChar(raw, t, 0) = "#" /\ getChar(raw, t, 1) = "}"
    THEN startAt("processContent", fastForward(raw, t, 2))
    ELSE [state |-> "processComment", t |-> fastForward(raw, t, 1)]

processFilter(raw, t) ==
    IF hasReachedEnd(raw, t, 0)
    THEN [state |-> "", t |-> [t EXCEPT !.parseErr = "File end reached within filter"]]
    ELSE IF getChar(raw, t, 0) = "}" /\ hasReachedEnd(raw, t, 1)
    THEN [state |-> "", t |-> [t EXCEPT !.parseErr = "File end reached within filter"]]
    ELSE IF getChar(raw, t, 0) = "}" /\ getChar(raw, t, 1) = "}"
    THEN closeNode(raw, addFilterNode(raw, t))
    ELSE [state |-> "processFilter", t |-> fastForward(raw, [t EXCEPT !.length = @ + 1], 1)]

processTag(raw, t) ==
    IF hasReachedEnd(raw, t, 0)
    THEN [state |-> "", t |-> [t EXCEPT !.parseErr = "File end reached within tag"]]
    ELSE IF getChar(raw, t, 0) = "%" /\ hasReachedEnd(raw, t, 1)
    THEN [state |-> "", t |-> [t EXCEPT !.parseErr = "File end reached within tag"]]
    ELSE IF getChar(raw, t, 0) = "%" /\ getChar(raw, t, 1) = "}"
    THEN closeNode(raw, addTagNode(raw, t))
    ELSE [state |-> "processTag", t |-> fastForward(raw, [t EXCEPT !.length = @ + 1], 1)]

\* processContent that takes {# for plain text
processContent_NoComment(raw, t) ==
    IF hasReachedEnd(raw, t, 0) THEN [state |-> "", t |-> addContentNode(raw, t)]
    ELSE IF getChar(raw, t, 0) = "{" /\ hasReachedEnd(raw, t, 1)
    THEN [state |-> "", t |-> [t EXCEPT !.parseErr = "File end reached (after opening '{')"]]
    ELSE IF getChar(raw, t, 0) = "{" /\ getChar(raw, t, 1) \in {"%", "{"}
    THEN startAt(CASE getChar(raw, t, 1) = "%" -> "processTag"
                   [] OTHER -> "processFilter",
                 addContentNode(raw, fastForward(raw, t, 2)))
    ELSE [state |-> "processContent", t |-> fastForward(raw, [t EXCEPT !.length = @ + 1], 1)]

processContent(raw, t) ==
    IF hasReachedEnd(raw, t, 0) THEN [state |-> "", t |-> addContentNode(raw, t)]
    ELSE IF getChar(raw, t, 0) = "{" /\ hasReachedEnd(raw, t, 1)
    THEN [state |-> "", t |-> [t EXCEPT !.parseErr = "File end reached (after opening '{')"]]
    ELSE IF getChar(raw, t, 0) = "{" /\ getChar(raw, t, 1) \in {"#", "%", "{"}
    THEN startAt(CASE getChar(raw, t, 1) = "#" -> "processComment"
                   [] getChar(raw, t, 1) = "%" -> "processTag"
                   [] OTHER -> "processFilter",
                 addContentNode(raw, fastForward(raw, t, 2)))
    ELSE [state |-> "processContent", t |-> fastForward(raw, [t EXCEPT !.length = @ + 1], 1)]

\* The character pairs at which a state function does something else than
\* move on by one character: the first character, and the second ones ("" is
\* the end of the text)
StopPairs(state) ==
    CASE state = "processContent" -> [first |-> "{", second |-> {"#", "%", "{", ""}]
      [] state = "processComment" -> [first |-> "#", second |-> {"}", ""}]
      [] state = "processFilter" -> [first |-> "}", second |-> {"}", ""}]
      [] state = "processTag" -> [first |-> "%", second |-> {"}", ""}]

StopsAt(raw, p, pair) ==
    \/ p >= Len(raw)
    \/ /\ raw[p + 1] = pair.first
       /\ (IF p + 1 >= Len(raw) THEN "" ELSE raw[p + 2]) \in pair.second

\* The position of the first call of the state function that does not return
\* the same state function after moving on by one character
RunEnd(raw, state, t) ==
    CHOOSE p \in t.pos..Len(raw) :
        /\ StopsAt(raw, p, StopPairs(state))
        /\ \A q \in t.pos..(p - 1) : ~StopsAt(raw, q, StopPairs(state))

\* The calls of the state function before that one: each adds the character
\* to the node (the comment state does not) and moves on
moveOnTo(raw, state, t, p) ==
    [fastForward(raw, t, p - t.pos)
        EXCEPT !.length = IF state = "processComment" THEN @ ELSE @ + (p - t.pos)]

moveOn(raw, state, t) == moveOnTo(raw, state, t, RunEnd(raw, state, t))

RECURSIVE stateLoop(_, _, _)
\* state = state(tpl)
stateNext(raw, r) == stateLoop(raw, r.state, r.t)

\* for state != nil { state = state(tpl) }
stateLoop(raw, state, t) ==
    CASE state = "" -> t
      [] state = "processContent" ->
            stateNext(raw, processContent(raw, moveOn(raw, state, t)))
      [] state = "processComment" ->
            stateNext(raw, processComment(raw, moveOn(raw, state, t)))
      [] state = "processFilter" ->
            stateNext(raw, processFilter(raw, moveOn(raw, state, t)))
      [] state = "processTag" ->
            stateNext(raw, processTag(raw, moveOn(raw, state, t)))

\* newTemplate: the tokenizer fields of a new Template
newTemplate ==
    [pos |-> 0, start |-> 0, length |-> 0, line |-> 1, col |-> 0, nodes |-> <<>>,
     parseErr |-> "", parseErrArg |-> <<>>]

\* newTemplate followed by Template.parse
parse(raw) == stateLoop(raw, "processContent", updatePosition(raw, newTemplate))

\* The template of a tokenizer record
parsedTemplate(tplname, t) ==
    [err |-> t.parseErr, tpl |-> [name |-> tplname, nodes |-> t.nodes]]

\* FromString: a template [name, nodes], or the error
FromString(tplname, tplstr) ==
    IF Len(tplstr) = 0
    THEN [err |-> "Template has no content", tpl |-> [name |-> tplname, nodes |-> <<>>]]
    ELSE parsedTemplate(tplname, parse(tplstr))

(***************************************************************************)
(* Rendering.  The Go call stack of a render is the sequence stack of      *)
(* frames, one per active call of execute, executeUntilAnyTagNode,         *)
(* ignoreUntilAnyTagNode or a tag handler; a frame holds the locals of the *)
(* call and pc, the place where it continues.  ret holds what the last     *)
(* returned call returned.  The operators below work on the record         *)
(*   [templates, files, ecs, internal_contexts, ctx, heap, stack, ret]     *)
(* of the program state and return the record after one step.              *)
(***************************************************************************)
sForloop == <<"f", "o", "r", "l", "o", "o", "p">>
sForloops == <<"f", "o", "r", "l", "o", "o", "p", "s">>
sForcounter == <<"f", "o", "r", "c", "o", "u", "n", "t", "e", "r">>
sForcounter1 == <<"f", "o", "r", "c", "o", "u", "n", "t", "e", "r", "1">>
sStaticPrefix == <<"s", "t", "a", "t", "i", "c", " ">>
sBlockPrefix == <<"b", "l", "o", "c", "k", "_">>

NoNode ==
    [type |-> "", line |-> 0, col |-> 0, content |-> <<>>, e |-> NoExpr,
     tagname |-> <<>>, tagargs |-> <<>>]

\* What a call returns: the error ("" for nil), the rendered text, the tag
\* node the scan stopped at
RetOut(out) == [err |-> "", out |-> out, tn |-> NoNode]
RetNode(tn, out) == [err |-> "", out |-> out, tn |-> tn]
RetErr(msg) == [err |-> msg, out |-> <<>>, tn |-> NoNode]

\* Context as a map: assignment and delete
CtxSet(c, key, value) == (key :> value) @@ c
CtxDel(c, key) == [x \in DOMAIN c \ {key} |-> c[x]]

executeFrame(ec) == [fn |-> "execute", pc |-> "loop", ec |-> ec, rendered |-> <<>>]
executeUntilFrame(ec, nodenames) ==
    [fn |-> "executeUntilAnyTagNode", pc |-> "start", ec |-> ec, nodenames |-> nodenames,
     rendered |-> <<>>]
ignoreUntilFrame(ec, nodenames) ==
    [fn |-> "ignoreUntilAnyTagNode", pc |-> "start", ec |-> ec, nodenames |-> nodenames]

\* The frame of a tag handler's Execute or Ignore hook, with its locals;
\* tag_pos is the cursor at the call, the index of the tag node the hook
\* belongs to
tagFrame(fn, ec, args, tag_pos) ==
    [fn |-> fn, pc |-> "start", ec |-> ec, args |-> args, tag_pos |-> tag_pos,
     rendered |-> <<>>,
     form |-> "", varname |-> <<>>, items |-> <<>>, n |-> 0, i |-> 0, forCtx |-> 0,
     has_forloops |-> FALSE, forloops |-> <<>>, starter_pos |-> 0,
     str |-> <<>>, base_tpl |-> 0, blockname |-> <<>>]

\* Tags[tagname].Execute and Tags[tagname].Ignore
TagExecute(tagname) ==
    CASE tagname = sIf -> "tagIf"
      [] tagname = sFor -> "tagFor"
      [] tagname = sBlock -> "tagBlock"
      [] tagname = sExtends -> "tagExtends"
      [] tagname = sInclude -> "tagInclude"
      [] tagname = sTrim -> "tagTrim"
      [] tagname = sRemove -> "tagRemove"
TagIgnore(tagname) ==
    CASE tagname = sIf -> "tagIfIgnore"
      [] tagname = sFor -> "tagForIgnore"
      [] tagname = sTrim -> "tagTrimIgnore"
      [] tagname = sRemove -> "tagRemoveIgnore"

Top(m) == m.stack[Len(m.stack)]
SetTop(m, f) == [m EXCEPT !.stack[Len(m.stack)] = f]
\* The call of callee by the top frame f, which continues at pc
Call(m, f, pc, callee) ==
    [m EXCEPT !.stack = Append([@ EXCEPT ![Len(@)] = [f EXCEPT !.pc = pc]], callee)]
Return(m, r) == [m EXCEPT !.stack = SubSeq(@, 1, Len(@) - 1), !.ret = r]
\* A run-time panic unwinds every frame of the render
Panic(m) == [m EXCEPT !.stack = <<>>, !.ret = RetErr("panic")]
Fail(m, err) == IF err = "panic" THEN Panic(m) ELSE Return(m, RetErr(err))

NodePos(m, f) == m.ecs[f.ec].node_pos
Nodes(m, f) == m.templates[m.ecs[f.ec].template].nodes
CurrentNode(m, f) == Nodes(m, f)[NodePos(m, f) + 1]
SetNodePos(m, f, pos) == [m EXCEPT !.ecs[f.ec].node_pos = pos]

\* The filter node under the cursor after evalString returned r: the node's
\* expression is as the evaluation leaves it
nodeEvaluated(m, f, r) ==
    IF r.err # "" THEN Fail(m, r.err)
    ELSE SetNodePos(SetTop(m, [f EXCEPT !.rendered = @ \o r.out]), f, NodePos(m, f) + 1)

nodeEvaluate(m, f, r) ==
    nodeEvaluated([m EXCEPT !.templates[m.ecs[f.ec].template].nodes[NodePos(m, f) + 1].e = r.e],
                  f, r)

\* node.execute that renders a tag without handler as nothing
nodeExecuteOf_PlaceholderSkipped(m, f, node) ==
    CASE node.type = "content" ->
            SetNodePos(SetTop(m, [f EXCEPT !.rendered = @ \o node.content]), f,
                       NodePos(m, f) + 1)
      [] node.type = "filter" -> nodeEvaluate(m, f, evalString(node.e, m.ctx, m.heap))
      [] node.type = "tag" ->
            IF ~TagHasHandler(node.tagname)
            THEN SetNodePos(m, f, NodePos(m, f) + 1)
            ELSE Call(m, f, "ret", tagFrame(TagExecute(node.tagname), f.ec, node.tagargs,
                                               NodePos(m, f)))

\* node.execute(execCtx, ctx) for the node under the cursor, called by the top
\* frame f (execute or executeUntilAnyTagNode)
nodeExecuteOf(m, f, node) ==
    CASE node.type = "content" ->
            SetNodePos(SetTop(m, [f EXCEPT !.rendered = @ \o node.content]), f,
                       NodePos(m, f) + 1)
      [] node.type = "filter" -> nodeEvaluate(m, f, evalString(node.e, m.ctx, m.heap))
      [] node.type = "tag" ->
            IF ~TagHasHandler(node.tagname)
            THEN Return(m, RetErr("Unhandled placeholder"))
            ELSE Call(m, f, "ret", tagFrame(TagExecute(node.tagname), f.ec, node.tagargs,
                                               NodePos(m, f)))

nodeExecute(m, f) == nodeExecuteOf(m, f, CurrentNode(m, f))

\* The continuation of the two executing loops after node.execute returned
nodeExecuted(m, f) ==
    IF m.ret.err # "" THEN Return(m, RetErr(m.ret.err))
    ELSE SetNodePos(SetTop(m, [f EXCEPT !.pc = "loop", !.rendered = @ \o m.ret.out]),
                    f, NodePos(m, f) + 1)

\* executionContext.execute
stepExecute(m) ==
    LET f == Top(m) IN
    IF f.pc = "loop"
    THEN IF NodePos(m, f) < Len(Nodes(m, f)) THEN nodeExecute(m, f)
         ELSE Return(m, RetOut(f.rendered))
    ELSE nodeExecuted(m, f)

\* executionContext.executeUntilAnyTagNode
stepExecuteUntilAnyTagNode(m) ==
    LET f == Top(m) IN
    CASE f.pc = "start" -> SetNodePos(SetTop(m, [f EXCEPT !.pc = "loop"]), f, NodePos(m, f) + 1)
      [] f.pc = "loop" ->
            IF NodePos(m, f) < Len(Nodes(m, f))
            THEN IF /\ CurrentNode(m, f).type = "tag"
                    /\ CurrentNode(m, f).tagname \in f.nodenames
                 THEN Return(m, RetNode(CurrentNode(m, f), f.rendered))
                 ELSE nodeExecute(m, f)
            ELSE Return(m, RetErr("No end-node"))
      [] f.pc = "ret" -> nodeExecuted(m, f)

\* ignoreUntilAnyTagNode that runs the Execute hook of a tag in the skipped
\* region
stepIgnoreUntilAnyTagNode_ExecutesNested(m) ==
    LET f == Top(m) IN
    CASE f.pc = "start" -> SetNodePos(SetTop(m, [f EXCEPT !.pc = "loop"]), f, NodePos(m, f) + 1)
      [] f.pc = "loop" ->
            IF NodePos(m, f) < Len(Nodes(m, f))
            THEN LET node == CurrentNode(m, f) IN
                 IF node.type = "tag" /\ node.tagname \in f.nodenames
                 THEN Return(m, RetNode(node, <<>>))
                 ELSE IF node.type = "tag" /\ TagHasIgnore(node.tagname)
                 THEN Call(m, f, "ret", tagFrame(TagExecute(node.tagname), f.ec, node.tagargs,
                                                    NodePos(m, f)))
                 ELSE SetNodePos(m, f, NodePos(m, f) + 1)
            ELSE Return(m, RetErr("No end-node"))
      [] f.pc = "ret" ->
            SetNodePos(SetTop(m, [f EXCEPT !.pc = "loop"]), f, NodePos(m, f) + 1)

\* executionContext.ignoreUntilAnyTagNode: the error of an Ignore hook is
\* dropped
stepIgnoreUntilAnyTagNode(m) ==
    LET f == Top(m) IN
    CASE f.pc = "start" -> SetNodePos(SetTop(m, [f EXCEPT !.pc = "loop"]), f, NodePos(m, f) + 1)
      [] f.pc = "loop" ->
            IF NodePos(m, f) < Len(Nodes(m, f))
            THEN LET node == CurrentNode(m, f) IN
                 IF node.type = "tag" /\ node.tagname \in f.nodenames
                 THEN Return(m, RetNode(node, <<>>))
                 ELSE IF node.type = "tag" /\ TagHasIgnore(node.tagname)
                 THEN Call(m, f, "ret", tagFrame(TagIgnore(node.tagname), f.ec, node.tagargs,
                                                    NodePos(m, f)))
                 ELSE SetNodePos(m, f, NodePos(m, f) + 1)
            ELSE Return(m, RetErr("No end-node"))
      [] f.pc = "ret" ->
            SetNodePos(SetTop(m, [f EXCEPT !.pc = "loop"]), f, NodePos(m, f) + 1)

\* The truth of the evaluated condition of tagIf: "true", "false" or "panic"
IfTruth(evaled) ==
    IF evaled.k = "bool" THEN (IF evaled.v THEN "true" ELSE "false")
    ELSE CASE ZeroCompare(evaled) = "true" -> "false"
           [] ZeroCompare(evaled) = "false" -> "true"
           [] OTHER -> "panic"

\* tagIf after evalCondArg returned evaled
tagIfEvaled(m, f, evaled) ==
    IF evaled.err # "" THEN Fail(m, evaled.err)
    ELSE IF IfTruth(evaled.val) = "panic" THEN Panic(m)
    ELSE IF IfTruth(evaled.val) = "true"
    THEN Call(m, f, "true_ret", executeUntilFrame(f.ec, {sElse, sEndif}))
    ELSE Call(m, f, "false_ret", ignoreUntilFrame(f.ec, {sElse, sEndif}))

\* tagIf (args is stored trimmed in the node, so the assignment of the
\* trimmed text to *args changes nothing)
stepTagIfAt(m, f) ==
    CASE f.pc = "start" ->
            IF Len(TrimSpace(f.args)) = 0 THEN Return(m, RetErr("If-argument is empty."))
            ELSE tagIfEvaled(m, f, evalCondArg(m.ctx, f.args, m.heap))
      [] f.pc = "true_ret" ->
            IF m.ret.err # "" THEN Return(m, RetErr(m.ret.err))
            ELSE IF m.ret.tn.tagname = sElse
            THEN Call(m, [f EXCEPT !.rendered = m.ret.out], "skip_ret",
                      ignoreUntilFrame(f.ec, {sEndif}))
            ELSE Return(m, RetOut(m.ret.out))
      [] f.pc = "skip_ret" ->
            IF m.ret.err # "" THEN Return(m, RetErr(m.ret.err))
            ELSE Return(m, RetOut(f.rendered))
      [] f.pc = "false_ret" ->
            IF m.ret.err # "" THEN Return(m, RetErr(m.ret.err))
            ELSE IF m.ret.tn.tagname = sElse
            THEN Call(m, f, "else_ret", executeUntilFrame(f.ec, {sEndif}))
            ELSE Return(m, RetOut(<<>>))
      [] f.pc = "else_ret" ->
            IF m.ret.err # "" THEN Return(m, RetErr(m.ret.err))
            ELSE Return(m, RetOut(m.ret.out))

stepTagIf(m) == stepTagIfAt(m, Top(m))

\* tagIfIgnore, tagForIgnore (endname is endif, endfor)
stepIgnoreWithElse(m, endname) ==
    LET f == Top(m) IN
    CASE f.pc = "start" -> Call(m, f, "ret1", ignoreUntilFrame(f.ec, {sElse, endname}))
      [] f.pc = "ret1" ->
            IF m.ret.err # "" THEN Return(m, RetErr(m.ret.err))
            ELSE IF m.ret.tn.tagname = sElse
            THEN Call(m, f, "ret2", ignoreUntilFrame(f.ec, {endname}))
            ELSE Return(m, RetOut(<<>>))
      [] f.pc = "ret2" ->
            IF m.ret.err # "" THEN Return(m, RetErr(m.ret.err))
            ELSE Return(m, RetOut(<<>>))

\* tagTrimIgnore, tagRemoveIgnore
stepIgnoreSimple(m, endname) ==
    LET f == Top(m) IN
    CASE f.pc = "start" -> Call(m, f, "ret1", ignoreUntilFrame(f.ec, {endname}))
      [] f.pc = "ret1" ->
            IF m.ret.err # "" THEN Return(m, RetErr(m.ret.err))
            ELSE Return(m, RetOut(<<>>))

(***************************************************************************)
(* tagFor                                                                  *)
(***************************************************************************)
\* The source of a for tag: the form, the bound name, the evaluated value
forEvaluated(form, varname, value) ==
    [form |-> form, varname |-> varname, err |-> value.err, value |-> value.val]

forParsed(form, varname, e, c, hp) ==
    IF e.err # "" THEN [form |-> form, varname |-> varname, err |-> e.err, value |-> EmptyString]
    ELSE forEvaluated(form, varname, evalValue(e.e, c, hp))

forSplit(form, parts, c, hp) == forParsed(form, TrimSpace(parts[1]), newExpr(parts[2]), c, hp)

forSource(args, c, hp) ==
    IF Contains(args, <<"i", "n">>)
    THEN forSplit("in", SplitN2s(args, <<"i", "n">>), c, hp)
    ELSE forSplit("count", <<<<>>, args>>, c, hp)

\* The orders in which the keys of a map can be iterated (reflect MapKeys
\* returns them in unspecified order)
KeyOrders(keys) ==
    {p \in [1..Cardinality(keys) -> keys] : \A i, j \in DOMAIN p : i # j => p[i] # p[j]}

\* The choices tagFor has when it starts: a key order for a map source
ForOrdersOf(f, src) ==
    IF f.pc = "start" /\ src.form = "in" /\ src.err = "" /\ src.value.k = "map"
    THEN KeyOrders(DOMAIN src.value.v)
    ELSE {<<>>}

ForOrders(m) == ForOrdersOf(Top(m), forSource(Top(m).args, m.ctx, m.heap))

\* The values the loop variable is bound to
forItems(value, order) ==
    CASE value.k = "slice" -> value.v
      [] value.k = "string" -> [i \in 1..Len(value.v) |-> VString(<<value.v[i]>>)]
      [] value.k = "map" ->
            [i \in 1..Len(order) |->
                VStruct("KeyValue", (sKey :> VString(order[i])) @@ (sValue :> value.v[order[i]]))]
      [] OTHER -> <<>>

\* The start of iteration i: bind the variable, reset the cursor, update and
\* publish the loop record, execute the body
forIteration(m, f, i) ==
    LET c1 == IF f.form = "in" THEN CtxSet(m.ctx, f.varname, f.items[i + 1]) ELSE m.ctx
        c2 == CtxSet(CtxSet(CtxSet(c1, sForloop, VPtr(f.forCtx)), sForcounter, VInt(i)),
                     sForcounter1, VInt(i + 1))
        m1 == [m EXCEPT !.ctx = c2,
                        !.ecs[f.ec].node_pos = f.starter_pos,
                        !.heap[f.forCtx].v.fields[sFirst] = IF i = 1 THEN VBool(FALSE) ELSE @,
                        !.heap[f.forCtx].v.fields[sLast] = IF i = f.n - 1 THEN VBool(TRUE) ELSE @]
    IN  Call(m1, [f EXCEPT !.i = i], "body_ret", executeUntilFrame(f.ec, {sElse, sEndfor}))

\* The loop has n > 0 rounds: create the loop record, update forloops, start
\* the first iteration
forLoopStart(m, f, src, n, items) ==
    LET id == Len(m.heap) + 1
        forCtx == VStruct("forContext",
                          (sCounter :> VInt(0)) @@ (sCounter1 :> VInt(1))
                          @@ (sMax :> VInt(n - 1)) @@ (sMax1 :> VInt(n))
                          @@ (sFirst :> VBool(TRUE)) @@ (sLast :> VBool(FALSE)))
        has0 == sForloops \in DOMAIN m.ctx
        has_forloop == sForloop \in DOMAIN m.ctx
        forloops == IF has0 THEN Append(m.ctx[sForloops].v, VPtr(id))
                    ELSE IF has_forloop THEN <<m.ctx[sForloop], VPtr(id)>>
                    ELSE <<>>
        has_forloops == has0 \/ has_forloop
        m1 == [m EXCEPT !.heap = Append(@, forCtx),
                        !.ctx = IF has_forloops THEN CtxSet(@, sForloops, VSlice(forloops))
                                ELSE @]
        f1 == [f EXCEPT !.form = src.form, !.varname = src.varname, !.items = items,
                        !.n = n, !.forCtx = id, !.has_forloops = has_forloops,
                        !.forloops = forloops, !.starter_pos = NodePos(m, f)]
    IN  forIteration(m1, f1, 0)

\* After the last iteration: remove the bindings and pop forloops
forLoopEnd(m, f) ==
    LET c1 == IF f.form = "in" THEN CtxDel(m.ctx, f.varname) ELSE m.ctx
        c2 == CtxDel(CtxDel(CtxDel(c1, sForloop), sForcounter), sForcounter1)
        forloops == SubSeq(f.forloops, 1, Len(f.forloops) - 1)
        c3 == IF ~f.has_forloops THEN c2
              ELSE IF Len(forloops) = 0 THEN CtxDel(c2, sForloops)
              ELSE CtxSet(c2, sForloops, VSlice(forloops))
    IN  Return([m EXCEPT !.ctx = c3], RetOut(f.rendered))

\* The end of an iteration: increase the counters, go on or finish
forIterationEnd(m, f) ==
    LET m1 == [m EXCEPT !.heap[f.forCtx].v.fields[sCounter] = VInt(@.v + 1),
                        !.heap[f.forCtx].v.fields[sCounter1] = VInt(@.v + 1)]
    IN  IF f.i + 1 < f.n THEN forIteration(m1, f, f.i + 1) ELSE forLoopEnd(m1, f)

\* A loop that treats its source as one element shorter
forCount_OneRoundLess(value) ==
    CASE value.k \in {"slice", "string"} -> Len(value.v) - 1
      [] value.k = "map" -> Cardinality(DOMAIN value.v) - 1
      [] value.k = "int" -> value.v - 1
      [] OTHER -> 0

\* The number of rounds
forCount(value) ==
    CASE value.k \in {"slice", "string"} -> Len(value.v)
      [] value.k = "map" -> Cardinality(DOMAIN value.v)
      [] value.k = "int" -> value.v
      [] OTHER -> 0

\* tagFor after the source src is evaluated
tagForSourced(m, f, order, src) ==
    IF src.err # "" THEN Fail(m, src.err)
    ELSE IF src.form = "in" /\ src.value.k \notin {"slice", "string", "map"}
    THEN Return(m, RetErr("For-loop 'in'-operator can onl be used for slices/arrays/strings/maps."))
    ELSE IF src.form = "count" /\ src.value.k # "int"
    THEN Return(m, RetErr("For-loop error: Cannot iterate"))
    ELSE IF forCount(src.value) > 0
    THEN forLoopStart(m, f, src, forCount(src.value), forItems(src.value, order))
    ELSE Call(m, f, "zero_ret", ignoreUntilFrame(f.ec, {sElse, sEndfor}))

stepTagForAt(m, f, order) ==
    CASE f.pc = "start" -> tagForSourced(m, f, order, forSource(f.args, m.ctx, m.heap))
      [] f.pc = "body_ret" ->
            IF m.ret.err # "" THEN Return(m, RetErr(m.ret.err))
            ELSE IF m.ret.tn.tagname = sElse
            THEN Call(m, [f EXCEPT !.rendered = @ \o m.ret.out], "skip_ret",
                      ignoreUntilFrame(f.ec, {sEndfor}))
            ELSE forIterationEnd(m, [f EXCEPT !.rendered = @ \o m.ret.out])
      [] f.pc = "skip_ret" -> forIterationEnd(m, f)
      [] f.pc = "zero_ret" ->
            IF m.ret.err # "" THEN Return(m, RetErr(m.ret.err))
            ELSE IF m.ret.tn.tagname = sElse
            THEN Call(m, f, "else_ret", executeUntilFrame(f.ec, {sEndfor}))
            ELSE Return(m, RetOut(<<>>))
      [] f.pc = "else_ret" ->
            IF m.ret.err # "" THEN Return(m, RetErr(m.ret.err))
            ELSE Return(m, RetOut(m.ret.out))

stepTagFor(m, order) == stepTagForAt(m, Top(m), order)

(***************************************************************************)
(* block, trim, remove                                                     *)
(***************************************************************************)
InternalContext(m, f) == m.internal_contexts[m.ecs[f.ec].internal_context]

stepTagBlock(m) ==
    LET f == Top(m)
        key == sBlockPrefix \o f.args
    IN  CASE f.pc = "start" ->
                IF key \in DOMAIN InternalContext(m, f)
                THEN Call(m, [f EXCEPT !.str = InternalContext(m, f)[key]], "ignore_ret",
                          ignoreUntilFrame(f.ec, {sEndblock}))
                ELSE Call(m, f, "execute_ret", executeUntilFrame(f.ec, {sEndblock}))
          [] f.pc = "ignore_ret" ->
                IF m.ret.err # "" THEN Return(m, RetErr(m.ret.err))
                ELSE Return(m, RetOut(f.str))
          [] f.pc = "execute_ret" ->
                IF m.ret.err # "" THEN Return(m, RetErr(m.ret.err))
                ELSE Return(m, RetOut(m.ret.out))

stepTagTrim(m) ==
    LET f == Top(m) IN
    CASE f.pc = "start" -> Call(m, f, "execute_ret", executeUntilFrame(f.ec, {sEndtrim}))
      [] f.pc = "execute_ret" ->
            IF m.ret.err # "" THEN Return(m, RetErr(m.ret.err))
            ELSE Return(m, RetOut(TrimSpace(m.ret.out)))

\* strings.Replace(s, old, "", -1): an empty old leaves s as it is
Remove(s, old) == IF old = <<>> THEN s ELSE Replace(s, old, <<>>)

RECURSIVE removePatterns(_, _, _, _, _)
removeEvaled(patterns, i, outputString, c, hp, evaledPattern) ==
    IF evaledPattern.err # "" THEN [err |-> evaledPattern.err, out |-> <<>>]
    ELSE removePatterns(patterns, i + 1, Remove(outputString, evaledPattern.out), c, hp)

removePattern(patterns, i, outputString, c, hp, e) ==
    IF e.err # "" THEN [err |-> e.err, out |-> <<>>]
    ELSE removeEvaled(patterns, i, outputString, c, hp, evalString(e.e, c, hp))

\* The loop over the patterns of tagRemove
removePatterns(patterns, i, outputString, c, hp) ==
    IF i > Len(patterns) THEN [err |-> "", out |-> outputString]
    ELSE removePattern(patterns, i, outputString, c, hp, newExpr(patterns[i]))

DefaultPatterns == <<<<"\"", " ", "\"">>, <<"\"", "\t", "\"">>, <<"\"", "\n", "\"">>, <<"\"", "\r", "\"">>>>

\* A remove tag without default patterns
PatternsOf_NoDefault(split) == split

\* The patterns of the tag: its arguments, or the default ones
PatternsOf(split) == IF Len(split) = 0 THEN DefaultPatterns ELSE split

tagRemoved(m, removed) ==
    IF removed.err # "" THEN Fail(m, removed.err)
    ELSE Return(m, RetOut(removed.out))

stepTagRemoveAt(m, f) ==
    CASE f.pc = "start" -> Call(m, f, "execute_ret", executeUntilFrame(f.ec, {sEndremove}))
      [] f.pc = "execute_ret" ->
            IF m.ret.err # "" THEN Return(m, RetErr(m.ret.err))
            ELSE tagRemoved(m, removePatterns(PatternsOf(splitArgs(f.args, ",")), 1,
                                              m.ret.out, m.ctx, m.heap))

stepTagRemove(m) == stepTagRemoveAt(m, Top(m))

(***************************************************************************)
(* extends, include                                                        *)
(***************************************************************************)
sBase == <<"b", "a", "s", "e">>
sBase2 == <<"b", "a", "s", "e", "2">>
sMid == <<"m", "i", "d">>
sGreetings == <<"g", "r", "e", "e", "t", "i", "n", "g", "s">>
sSelf == <<"s", "e", "l", "f">>
sLoop == <<"l", "o", "o", "p">>
sPing == <<"p", "i", "n", "g">>
sPong == <<"p", "o", "n", "g">>

\* The sources the Locator returns: base and greetings are those of the test
\* suite; base2 has two blocks; mid extends base2 and defines block a
Files ==
    (sBase :> <<"H", "e", "l", "l", "o", " ", "{", "%", " ", "b", "l", "o", "c", "k", " ", "n", "a", "m", "e", " ", "%", "}", "J", "o", "s", "h", "{", "%", " ", "e", "n", "d", "b", "l", "o", "c", "k", " ", "%", "}", "!">>)
    @@ (sGreetings :> <<"H", "e", "l", "l", "o", " ", "{", "{", " ", "n", "a", "m", "e", "|", "c", "a", "p", "i", "t", "a", "l", "i", "z", "e", " ", "}", "}", "!">>)
    @@ (sBase2 :> <<"A", "{", "%", " ", "b", "l", "o", "c", "k", " ", "a", " ", "%", "}", "1", "{", "%", " ", "e", "n", "d", "b", "l", "o", "c", "k", " ", "%", "}", "B", "{", "%", " ", "b", "l", "o", "c", "k", " ", "b", " ", "%", "}", "2", "{", "%", " ", "e", "n", "d", "b", "l", "o", "c", "k", " ", "%", "}", "C">>)
    @@ (sMid :> <<"{", "%", " ", "e", "x", "t", "e", "n", "d", "s", " ", "\"", "b", "a", "s", "e", "2", "\"", " ", "%", "}", "{", "%", " ", "b", "l", "o", "c", "k", " ", "a", " ", "%", "}", "M", "{", "%", " ", "e", "n", "d", "b", "l", "o", "c", "k", " ", "%", "}">>)

\* A Locator that also returns templates including or extending themselves,
\* directly or through another template
sCount == <<"c", "o", "u", "n", "t">>
sWrap == <<"w", "r", "a", "p">>

sNest == <<"n", "e", "s", "t">>

\* A Locator that also returns a template that shows forcounter and has a
\* block of its own, a base that includes it, and a base with a block inside
\* a block
IncludeFiles ==
    Files
    @@ (sNest :> <<"A", "{", "%", " ", "b", "l", "o", "c", "k", " ", "a", " ", "%", "}", "1", "{", "%", " ", "b", "l", "o", "c", "k", " ", "b", " ", "%", "}", "2", "{", "%", " ", "e", "n", "d", "b", "l", "o", "c", "k", " ", "%", "}", "3", "{", "%", " ", "e", "n", "d", "b", "l", "o", "c", "k", " ", "%", "}", "C">>)
    @@ (sCount :> <<"{", "{", " ", "f", "o", "r", "c", "o", "u", "n", "t", "e", "r", " ", "}", "}", "{", "%", " ", "b", "l", "o", "c", "k", " ", "a", " ", "%", "}", "d", "{", "%", " ", "e", "n", "d", "b", "l", "o", "c", "k", " ", "%", "}">>)
    @@ (sWrap :> <<"{", "%", " ", "b", "l", "o", "c", "k", " ", "a", " ", "%", "}", "1", "{", "%", " ", "e", "n", "d", "b", "l", "o", "c", "k", " ", "%", "}", "{", "%", " ", "i", "n", "c", "l", "u", "d", "e", " ", "\"", "c", "o", "u", "n", "t", "\"", " ", "%", "}">>)

LiveFiles ==
    IncludeFiles
    @@ (sSelf :> <<"a", "{", "%", " ", "i", "n", "c", "l", "u", "d", "e", " ", "\"", "s", "e", "l", "f", "\"", " ", "%", "}">>)
    @@ (sLoop :> <<"{", "%", " ", "e", "x", "t", "e", "n", "d", "s", " ", "\"", "l", "o", "o", "p", "\"", " ", "%", "}", "{", "%", " ", "b", "l", "o", "c", "k", " ", "a", " ", "%", "}", "x", "{", "%", " ", "e", "n", "d", "b", "l", "o", "c", "k", " ", "%", "}">>)
    @@ (sPing :> <<"{", "%", " ", "i", "n", "c", "l", "u", "d", "e", " ", "\"", "p", "o", "n", "g", "\"", " ", "%", "}">>)
    @@ (sPong :> <<"b", "{", "%", " ", "i", "n", "c", "l", "u", "d", "e", " ", "\"", "p", "i", "n", "g", "\"", " ", "%", "}">>)

\* FromString(name, content, locator) for every template a Locator returns,
\* computed once (the Locators of all specifications return these sources)
Located == [n \in DOMAIN LiveFiles |-> FromString(n, LiveFiles[n])]

\* createBaseTplForExtendInclude: the locator is the map files from names to
\* sources, a part of LiveFiles
NoTemplate == [name |-> <<>>, nodes |-> <<>>]

createBaseNamed(files, tplname) ==
    IF tplname.err # "" THEN [err |-> tplname.err, tpl |-> NoTemplate]
    ELSE IF TrimSpace(tplname.out) = <<>>
    THEN [err |-> "Please provide a propper template filename", tpl |-> NoTemplate]
    ELSE IF tplname.out \notin DOMAIN files
    THEN [err |-> "Could not find the template", tpl |-> NoTemplate]
    ELSE Located[tplname.out]

createBaseExpr(files, c, hp, e) ==
    IF e.err # "" THEN [err |-> e.err, tpl |-> NoTemplate]
    ELSE createBaseNamed(files, evalString(e.e, c, hp))

createBaseTplForExtendInclude(args, files, c, hp) ==
    createBaseExpr(files, c, hp,
                   newExpr(Split(IF HasPrefix(args, sStaticPrefix)
                                 THEN SubSeq(args, Len(sStaticPrefix) + 1, Len(args))
                                 ELSE args, " ")[1]))

\* tagExtends after the base template is created
tagExtendsBase(m, f, base) ==
    IF base.err # "" THEN Fail(m, base.err)
    ELSE Call([m EXCEPT !.templates = Append(@, base.tpl)],
              [f EXCEPT !.base_tpl = Len(m.templates) + 1], "scan_ret",
              ignoreUntilFrame(f.ec, {sBlock}))

\* tagExtends (no template has an entry in its cache: the base is created
\* on every execution)
stepTagExtendsAt(m, f) ==
    CASE f.pc = "start" ->
            tagExtendsBase(m, f, createBaseTplForExtendInclude(f.args, m.files, m.ctx, m.heap))
      [] f.pc = "scan_ret" ->
            IF m.ret.err # ""
            THEN Call([m EXCEPT !.ecs = Append(@, [template |-> f.base_tpl, node_pos |-> 0,
                                                   internal_context |->
                                                       m.ecs[f.ec].internal_context])],
                      f, "base_ret", executeFrame(Len(m.ecs) + 1))
            ELSE Call(m, [f EXCEPT !.blockname = m.ret.tn.tagargs], "block_ret",
                      executeUntilFrame(f.ec, {sEndblock}))
      [] f.pc = "block_ret" ->
            IF m.ret.err # "" THEN Return(m, RetErr(m.ret.err))
            ELSE Call([m EXCEPT !.internal_contexts[m.ecs[f.ec].internal_context] =
                                    CtxSet(@, sBlockPrefix \o f.blockname, m.ret.out)],
                      f, "scan_ret", ignoreUntilFrame(f.ec, {sBlock}))
      [] f.pc = "base_ret" ->
            IF m.ret.err # "" THEN Return(m, RetErr(m.ret.err))
            ELSE Return(m, RetOut(m.ret.out))

stepTagExtends(m) == stepTagExtendsAt(m, Top(m))

\* tagInclude after the template is created: it is executed with a new
\* execution context and a new internal context
tagIncludeBase_SharesBlocks(m, f, base) ==
    IF base.err # "" THEN Fail(m, base.err)
    ELSE Call([m EXCEPT !.templates = Append(@, base.tpl),
                        !.ecs = Append(@, [template |-> Len(m.templates) + 1,
                                           node_pos |-> 0,
                                           internal_context |->
                                               m.ecs[f.ec].internal_context])],
              f, "base_ret", executeFrame(Len(m.ecs) + 1))

tagIncludeBase(m, f, base) ==
    IF base.err # "" THEN Fail(m, base.err)
    ELSE Call([m EXCEPT !.templates = Append(@, base.tpl),
                        !.internal_contexts = Append(@, <<>>),
                        !.ecs = Append(@, [template |-> Len(m.templates) + 1,
                                           node_pos |-> 0,
                                           internal_context |->
                                               Len(m.internal_contexts) + 1])],
              f, "base_ret", executeFrame(Len(m.ecs) + 1))

stepTagIncludeAt(m, f) ==
    CASE f.pc = "start" ->
            tagIncludeBase(m, f, createBaseTplForExtendInclude(f.args, m.files, m.ctx, m.heap))
      [] f.pc = "base_ret" ->
            IF m.ret.err # "" THEN Return(m, RetErr(m.ret.err))
            ELSE Return(m, RetOut(m.ret.out))

stepTagInclude(m) == stepTagIncludeAt(m, Top(m))

(***************************************************************************)
(* Specification SpecResolve: resolveIdent applied to bounded inputs        *)
(***************************************************************************)
\* The longest specifier list of a resolved name
MaxSpecifiers == 2

sPerson == <<"p", "e", "r", "s", "o", "n">>
sNameVar == <<"n", "a", "m", "e">>
sNames == <<"n", "a", "m", "e", "s">>
sOne == <<"o", "n", "e">>
sAlter == <<"a", "l", "t", "e", "r">>
sFoo == <<"f", "o", "o">>
sPongo == <<"P", "o", "n", "g", "o">>

\* The test fixture: person and one of its friends
FixtureHeap ==
    <<VStruct("Person",
              (sName :> VString(<<"F", "l", "o">>)) @@ (sAge :> VInt(40))
              @@ (sFriends :> VSlice(<<VPtr(2)>>))
              @@ (sAccounts :> VMap(sDefault :> VFloat(<<"1", ".", "5">>)))
              @@ (sNotexported :> VInt(0))),
      VStruct("Person",
              (sName :> VString(<<"G", "e", "o", "r", "g">>)) @@ (sAge :> VInt(51))
              @@ (sFriends :> VSlice(<<>>))
              @@ (sAccounts :> VMap(<<>>))
              @@ (sNotexported :> VInt(0)))>>

\* Context{"person": &person, ...} and Context{"person": person, ...}
FixtureContext(byPointer) ==
    (sPerson :> (IF byPointer THEN VPtr(1) ELSE FixtureHeap[1]))
    @@ (sNameVar :> VString(sPongo))
    @@ (sNames :> VSlice(<<VString(<<"a">>), VString(<<"b">>)>>))
    @@ (sAccounts :> VMap(sDefault :> VInt(7)))
    @@ (sOne :> VInt(1))
    @@ (sAlter :> VString(sAge))

FirstSegments == {sPerson, sNameVar, sNames, sAccounts, sOne, sFoo}

RawSpecifiers ==
    {<<"0">>, <<"1">>, <<"9">>, sName, sAge, sFriends, sAccounts, sDefault,
     sNotexported, sSayHello, sSayHelloTo, sOne, sAlter, sFoo,
     <<"\"", "A", "g", "e", "\"">>, <<"t", "r", "u", "e">>, <<>>, <<"1", "x">>}

ResolveNames ==
    {Join(<<f>> \o sp, <<".">>) :
        f \in FirstSegments,
        sp \in UNION {[1..n -> RawSpecifiers] : n \in 0..MaxSpecifiers}}

InitResolve ==
    /\ name \in ResolveNames
    /\ \E byPointer \in BOOLEAN : ctx = FixtureContext(byPointer)
    /\ heap = FixtureHeap
    /\ resolved = <<>>
    /\ input = <<>>
    /\ templates = <<>>
    /\ ecs = <<>>
    /\ internal_contexts = <<>>
    /\ stack = <<>>
    /\ ret = <<>>
    /\ renders = 0
    /\ gs = <<>>
    /\ parser = <<>>
    /\ response = <<>>

\* One call of resolveIdent(name, ctx)
Resolve ==
    /\ resolved = <<>>
    /\ resolved' = <<resolveIdent(name, ctx, heap)>>
    /\ UNCHANGED <<name, input, templates, ecs, internal_contexts, ctx, heap, stack, ret,
                   renders, gs, parser, response>>

NextResolve == Resolve

SpecResolve == InitResolve /\ [][NextResolve]_vars


(***************************************************************************)
(* Specification SpecRender: templates of bounded families are parsed      *)
(* (FromString) and rendered (Template.Execute), one step of the call       *)
(* stack at a time.                                                        *)
(***************************************************************************)
\* The longest chain of safe/unsafe filters written in an expression
MaxChain == 2
\* The most renders of one parsed template
MaxRenders == 2
\* The deepest nest of for loops, and the most nests one after the other
MaxDepth == 3
MaxGroups == 2

sU == <<"u">>
sW == <<"w">>
sA == <<"a">>
sB == <<"b">>

Tag(content) == <<"{", "%", " ">> \o content \o <<" ", "%", "}">>
Var(content) == <<"{", "{", " ">> \o content \o <<" ", "}", "}">>

\* The Contexts of the expression families: the fixture, with u and w bound
\* to strings
ExprContexts ==
    {FixtureContext(TRUE) @@ (sU :> VString(u)) @@ (sW :> VString(w)) :
        u \in {<<"a", "<">>, <<"b", "&">>}, w \in {<<"c">>, <<"d">>}}

MkInput(family, shape, src, contexts, n) ==
    [family |-> family, shape |-> shape, src |-> src, files |-> Files,
     contexts |-> contexts, renders |-> n]

\* {{ root|f1|...|fn }} with every fi safe or unsafe, for a literal and for a
\* Context variable
ChainRoots == {<<"\"", "<", "b", ">", "&", "\"">>, sU}
ChainInputs ==
    {MkInput("chain", [root |-> root, chain |-> chain],
             Var(Join(<<root>> \o chain, <<"|">>)), ExprContexts, MaxRenders) :
        root \in ChainRoots,
        chain \in UNION {[1..n -> {sSafe, sUnsafe}] : n \in 0..MaxChain}}

\* Expressions with identifier arguments: a filter argument and the
\* arguments of a method call
ArgSources ==
    {<<"x", "|", "d", "e", "f", "a", "u", "l", "t", ":", "u">>, <<"p", "e", "r", "s", "o", "n", ".", "S", "a", "y", "H", "e", "l", "l", "o", "T", "o", ":", "u", ",", "w">>, <<"n", "a", "m", "e", "s", "|", "j", "o", "i", "n", ":", "w">>}

ArgInputs ==
    {MkInput("args", <<>>, Var(src), ExprContexts, MaxRenders) : src \in ArgSources}

RECURSIVE LoopNest(_, _)
\* d for loops inside one another, with text before and after the inner loop;
\* the loops alternate between the count form and the in form
LoopNest(d, level) ==
    Tag(IF level % 2 = 1 THEN <<"f", "o", "r", " ", "2">> ELSE <<"f", "o", "r", " ", "x", " ", "i", "n", " ", "n", "a", "m", "e", "s">>)
    \o <<"a">>
    \o (IF d > 1 THEN LoopNest(d - 1, level + 1) \o <<"b">> ELSE <<>>)
    \o Tag(sEndfor)

RECURSIVE LoopSource(_)
LoopSource(depths) ==
    IF depths = <<>> THEN <<>> ELSE LoopNest(Head(depths), 1) \o LoopSource(Tail(depths))

LoopInputs ==
    {MkInput("loop", depths, LoopSource(depths), {FixtureContext(TRUE)}, 1) :
        depths \in UNION {[1..g -> 1..MaxDepth] : g \in 1..MaxGroups}}

\* if tags: the condition with the truth the condition has, a then body and
\* an optional else body; a body is a text, or a text, an inner if or for tag
\* and a text
IfConds ==
    {[text |-> <<"t", "r", "u", "e">>, truth |-> TRUE], [text |-> <<"f", "a", "l", "s", "e">>, truth |-> FALSE],
     [text |-> <<"1">>, truth |-> TRUE], [text |-> <<"0">>, truth |-> FALSE],
     [text |-> <<"\"", "\"">>, truth |-> FALSE], [text |-> sNameVar, truth |-> TRUE],
     [text |-> sFoo, truth |-> FALSE], [text |-> sNames, truth |-> TRUE]}

TextItem(s) == [t |-> "text", s |-> s]
IfItem(cond, then, hasElse, else) ==
    [t |-> "if", cond |-> cond, then |-> then, hasElse |-> hasElse, else |-> else]
ForItem(n, then, hasElse, else) ==
    [t |-> "for", n |-> n, then |-> then, hasElse |-> hasElse, else |-> else]

InnerItems(then, else) ==
    {IfItem(c, then, h, else) :
        c \in {[text |-> <<"t", "r", "u", "e">>, truth |-> TRUE], [text |-> <<"f", "a", "l", "s", "e">>, truth |-> FALSE]},
        h \in BOOLEAN}
    \cup {ForItem(2, then, FALSE, else), ForItem(0, then, TRUE, else),
          ForItem(2, then, TRUE, else)}

Bodies(first, then, else, last) ==
    {<<TextItem(first)>>}
    \cup {<<TextItem(first), it, TextItem(last)>> : it \in InnerItems(then, else)}

IfTrees ==
    {[cond |-> c, then |-> th, hasElse |-> TRUE, else |-> el] :
        c \in IfConds, th \in Bodies(<<"a">>, <<"c">>, <<"d">>, <<"z">>),
        el \in Bodies(<<"b">>, <<"e">>, <<"f">>, <<"y">>)}
    \cup {[cond |-> c, then |-> th, hasElse |-> FALSE, else |-> <<>>] :
            c \in IfConds, th \in Bodies(<<"a">>, <<"c">>, <<"d">>, <<"z">>)}

ItemSource(it) ==
    CASE it.t = "text" -> it.s
      [] it.t = "if" ->
            Tag(<<"i", "f", " ">> \o it.cond.text) \o it.then
            \o (IF it.hasElse THEN Tag(sElse) \o it.else ELSE <<>>) \o Tag(sEndif)
      [] it.t = "for" ->
            Tag(<<"f", "o", "r", " ">> \o Itoa(it.n)) \o it.then
            \o (IF it.hasElse THEN Tag(sElse) \o it.else ELSE <<>>) \o Tag(sEndfor)

RECURSIVE BodySource(_)
BodySource(body) ==
    IF body = <<>> THEN <<>> ELSE ItemSource(Head(body)) \o BodySource(Tail(body))

TreeSource(tree) ==
    Tag(<<"i", "f", " ">> \o tree.cond.text) \o BodySource(tree.then)
    \o (IF tree.hasElse THEN Tag(sElse) \o BodySource(tree.else) ELSE <<>>)
    \o Tag(sEndif)

IfInputs ==
    {MkInput("if", tree, TreeSource(tree), {FixtureContext(TRUE)}, 1) : tree \in IfTrees}

\* A child that begins with extends: the base, the blocks (a, b) the child
\* defines, and whether it has text outside the blocks
ExtendsShapes ==
    {[base |-> base, defines |-> defines, outside |-> outside] :
        base \in {sBase2, sMid}, defines \in SUBSET {sA, sB}, outside \in BOOLEAN}

ChildBlock(shape, blockname, text) ==
    IF blockname \in shape.defines
    THEN Tag(<<"b", "l", "o", "c", "k", " ">> \o blockname) \o text \o Tag(sEndblock)
         \o (IF shape.outside THEN <<" ", "n", "o", "t", " ", "s", "h", "o", "w", "n", " ">> ELSE <<>>)
    ELSE <<>>

ExtendsSource(shape) ==
    Tag(<<"e", "x", "t", "e", "n", "d", "s", " ", "\"">> \o shape.base \o <<"\"">>)
    \o (IF shape.outside THEN <<" ", " ", "T", "h", "i", "s", " ", "d", "o", "e", "s", "n", "'", "t", " ", "s", "h", "o", "w", " ", "u", "p", " ">> ELSE <<>>)
    \o ChildBlock(shape, sA, <<"X">>) \o ChildBlock(shape, sB, <<"Y">>)

ExtendsInputs ==
    {MkInput("extends", shape, ExtendsSource(shape), {FixtureContext(TRUE)}, 1) :
        shape \in ExtendsShapes}

\* include, trim and remove, executed and skipped
OtherSources ==
    {<<"{", "%", " ", "i", "n", "c", "l", "u", "d", "e", " ", "\"", "g", "r", "e", "e", "t", "i", "n", "g", "s", "\"", " ", "%", "}", " ", "H", "o", "w", " ", "a", "r", "e", " ", "y", "o", "u", " ", "t", "o", "d", "a", "y", "?">>,
     <<"{", "%", " ", "f", "o", "r", " ", "2", " ", "%", "}", "{", "%", " ", "i", "n", "c", "l", "u", "d", "e", " ", "\"", "g", "r", "e", "e", "t", "i", "n", "g", "s", "\"", " ", "%", "}", "{", "%", " ", "e", "n", "d", "f", "o", "r", " ", "%", "}">>,
     <<"{", "%", " ", "t", "r", "i", "m", " ", "%", "}", " ", " ", "h", "e", "l", "l", "o", " ", " ", "{", "%", " ", "e", "n", "d", "t", "r", "i", "m", " ", "%", "}">>,
     <<"{", "%", " ", "r", "e", "m", "o", "v", "e", " ", "\"", "l", "\"", " ", "%", "}", "h", "e", "l", "l", "o", "{", "%", " ", "e", "n", "d", "r", "e", "m", "o", "v", "e", " ", "%", "}">>,
     <<"{", "%", " ", "r", "e", "m", "o", "v", "e", " ", "%", "}", " ", "h", " ", "e", "\t", "l", " ", "{", "%", " ", "e", "n", "d", "r", "e", "m", "o", "v", "e", " ", "%", "}">>,
     <<"{", "%", " ", "i", "f", " ", "f", "a", "l", "s", "e", " ", "%", "}", "{", "%", " ", "t", "r", "i", "m", " ", "%", "}", " ", "a", " ", "{", "%", " ", "e", "n", "d", "t", "r", "i", "m", " ", "%", "}", "{", "%", " ", "r", "e", "m", "o", "v", "e", " ", "%", "}", "b", "{", "%", " ", "e", "n", "d", "r", "e", "m", "o", "v", "e", " ", "%", "}", "{", "%", " ", "e", "n", "d", "i", "f", " ", "%", "}", "c">>,
     <<"{", "%", " ", "e", "x", "t", "e", "n", "d", "s", " ", "\"", "b", "a", "s", "e", "\"", " ", "%", "}", " ", " ", "T", "h", "i", "s", " ", "d", "o", "e", "s", "n", "'", "t", " ", "s", "h", "o", "w", " ", "u", "p", " ", "{", "%", " ", "b", "l", "o", "c", "k", " ", "n", "a", "m", "e", " ", "%", "}", "F", "l", "o", "r", "i", "a", "n", "{", "%", " ", "e", "n", "d", "b", "l", "o", "c", "k", " ", "%", "}">>,
     <<"{", "%", " ", "i", "n", "c", "l", "u", "d", "e", " ", "\"", "f", "o", "o", "b", "a", "r", "\"", " ", "%", "}", " ", "T", "h", "i", "s", " ", "a", "n", "d", " ", "t", "h", "a", "t">>,
     <<"{", "%", " ", "f", "o", "r", " ", "w", " ", "i", "n", " ", "A", "c", "c", "o", "u", "n", "t", "s", " ", "%", "}", "{", "{", " ", "w", ".", "K", "e", "y", " ", "}", "}", "=", "{", "{", " ", "w", ".", "V", "a", "l", "u", "e", " ", "}", "}", "{", "%", " ", "e", "n", "d", "f", "o", "r", " ", "%", "}">>,
     <<"{", "%", " ", "i", "f", " ", "t", "e", "s", "t", " ", "%", "}">>}

OtherInputs ==
    {MkInput("other", <<>>, src, {FixtureContext(TRUE)}, 1) : src \in OtherSources}

\* Sources of text only: every non-empty text of up to MaxContent characters
\* that contains none of the openers {{ {% {#
MaxContent == 3
ContentChars == {"a", "{", "}", "%", "#", "\n"}
Openers == {<<"{", "{">>, <<"{", "%">>, <<"{", "#">>}
HasOpener(src) == \E i \in 1..(Len(src) - 1) : SubSeq(src, i, i + 1) \in Openers
ContentSources ==
    {src \in UNION {[1..n -> ContentChars] : n \in 1..MaxContent} : ~HasOpener(src)}
ContentInputs ==
    {MkInput("content", <<>>, src, {FixtureContext(TRUE)}, 1) : src \in ContentSources}

\* Structural tags whose terminator is missing from the rest of the node list:
\* the scan runs to the end of the nodes, for the executed and for the
\* skipped branch, with and without an else, also nested in a skipped branch
UnterminatedSources ==
    {<<"{", "%", " ", "i", "f", " ", "t", "r", "u", "e", " ", "%", "}", "a">>,
     <<"{", "%", " ", "i", "f", " ", "f", "a", "l", "s", "e", " ", "%", "}", "a">>,
     <<"{", "%", " ", "i", "f", " ", "t", "r", "u", "e", " ", "%", "}", "a", "{", "%", " ", "e", "l", "s", "e", " ", "%", "}", "b">>,
     <<"{", "%", " ", "i", "f", " ", "f", "a", "l", "s", "e", " ", "%", "}", "a", "{", "%", " ", "e", "l", "s", "e", " ", "%", "}", "b">>,
     <<"{", "%", " ", "f", "o", "r", " ", "2", " ", "%", "}", "a">>,
     <<"{", "%", " ", "f", "o", "r", " ", "0", " ", "%", "}", "a">>,
     <<"{", "%", " ", "f", "o", "r", " ", "2", " ", "%", "}", "a", "{", "%", " ", "e", "l", "s", "e", " ", "%", "}", "b">>,
     <<"{", "%", " ", "f", "o", "r", " ", "0", " ", "%", "}", "a", "{", "%", " ", "e", "l", "s", "e", " ", "%", "}", "b">>,
     <<"{", "%", " ", "f", "o", "r", " ", "w", " ", "i", "n", " ", "n", "a", "m", "e", "s", " ", "%", "}", "a">>,
     <<"{", "%", " ", "f", "o", "r", " ", "w", " ", "i", "n", " ", "n", "a", "m", "e", "s", " ", "%", "}", "a", "{", "%", " ", "e", "l", "s", "e", " ", "%", "}", "b">>,
     <<"{", "%", " ", "b", "l", "o", "c", "k", " ", "a", " ", "%", "}", "x">>,
     <<"{", "%", " ", "t", "r", "i", "m", " ", "%", "}", " ", "x">>,
     <<"{", "%", " ", "r", "e", "m", "o", "v", "e", " ", "%", "}", " ", "x">>,
     <<"{", "%", " ", "i", "f", " ", "f", "a", "l", "s", "e", " ", "%", "}", "{", "%", " ", "t", "r", "i", "m", " ", "%", "}", "x", "{", "%", " ", "e", "n", "d", "i", "f", " ", "%", "}">>,
     <<"{", "%", " ", "i", "f", " ", "f", "a", "l", "s", "e", " ", "%", "}", "{", "%", " ", "f", "o", "r", " ", "2", " ", "%", "}", "x", "{", "%", " ", "e", "l", "s", "e", " ", "%", "}", "y", "{", "%", " ", "e", "n", "d", "i", "f", " ", "%", "}">>}

UnterminatedInputs ==
    {MkInput("unterminated", <<>>, src, {FixtureContext(TRUE)}, 1) : src \in UnterminatedSources}

\* Structural tags that overlap instead of nesting, and terminator-only tags
\* without an open structural tag; the last source nests properly
OverlapSources ==
    {<<"{", "%", " ", "t", "r", "i", "m", " ", "%", "}", "{", "%", " ", "i", "f", " ", "t", "r", "u", "e", " ", "%", "}", "h", "e", "l", "l", "o", "{", "%", " ", "e", "n", "d", "t", "r", "i", "m", " ", "%", "}", "{", "%", " ", "e", "n", "d", "i", "f", " ", "%", "}">>,
     <<"{", "%", " ", "t", "r", "i", "m", " ", "%", "}", "{", "%", " ", "i", "f", " ", "f", "a", "l", "s", "e", " ", "%", "}", "h", "e", "l", "l", "o", "{", "%", " ", "e", "n", "d", "t", "r", "i", "m", " ", "%", "}", "{", "%", " ", "e", "n", "d", "i", "f", " ", "%", "}">>,
     <<"a", "{", "%", " ", "e", "l", "s", "e", " ", "%", "}", "b">>,
     <<"a", "{", "%", " ", "e", "n", "d", "i", "f", " ", "%", "}", "b">>,
     <<"a", "{", "%", " ", "e", "n", "d", "f", "o", "r", " ", "%", "}", "b">>,
     <<"a", "{", "%", " ", "e", "n", "d", "b", "l", "o", "c", "k", " ", "%", "}", "b">>,
     <<"a", "{", "%", " ", "e", "n", "d", "t", "r", "i", "m", " ", "%", "}", "b">>,
     <<"a", "{", "%", " ", "e", "n", "d", "r", "e", "m", "o", "v", "e", " ", "%", "}", "b">>,
     <<"{", "%", " ", "i", "f", " ", "t", "r", "u", "e", " ", "%", "}", "{", "%", " ", "f", "o", "r", " ", "2", " ", "%", "}", "x", "{", "%", " ", "e", "n", "d", "i", "f", " ", "%", "}", "{", "%", " ", "e", "n", "d", "f", "o", "r", " ", "%", "}">>,
     <<"{", "%", " ", "f", "o", "r", " ", "2", " ", "%", "}", "{", "%", " ", "i", "f", " ", "t", "r", "u", "e", " ", "%", "}", "x", "{", "%", " ", "e", "n", "d", "f", "o", "r", " ", "%", "}", "{", "%", " ", "e", "n", "d", "i", "f", " ", "%", "}">>,
     <<"{", "%", " ", "f", "o", "r", " ", "0", " ", "%", "}", "{", "%", " ", "i", "f", " ", "t", "r", "u", "e", " ", "%", "}", "x", "{", "%", " ", "e", "n", "d", "f", "o", "r", " ", "%", "}", "{", "%", " ", "e", "n", "d", "i", "f", " ", "%", "}">>,
     <<"{", "%", " ", "b", "l", "o", "c", "k", " ", "a", " ", "%", "}", "{", "%", " ", "i", "f", " ", "t", "r", "u", "e", " ", "%", "}", "x", "{", "%", " ", "e", "n", "d", "b", "l", "o", "c", "k", " ", "%", "}", "{", "%", " ", "e", "n", "d", "i", "f", " ", "%", "}">>,
     <<"{", "%", " ", "r", "e", "m", "o", "v", "e", " ", "%", "}", "{", "%", " ", "f", "o", "r", " ", "1", " ", "%", "}", "x", "{", "%", " ", "e", "n", "d", "r", "e", "m", "o", "v", "e", " ", "%", "}", "{", "%", " ", "e", "n", "d", "f", "o", "r", " ", "%", "}">>,
     <<"{", "%", " ", "i", "f", " ", "t", "r", "u", "e", " ", "%", "}", "a", "{", "%", " ", "e", "n", "d", "i", "f", " ", "%", "}", "{", "%", " ", "e", "n", "d", "i", "f", " ", "%", "}">>,
     <<"{", "%", " ", "i", "f", " ", "f", "a", "l", "s", "e", " ", "%", "}", "{", "%", " ", "t", "r", "i", "m", " ", "%", "}", "x", "{", "%", " ", "e", "n", "d", "i", "f", " ", "%", "}", "y", "{", "%", " ", "e", "n", "d", "t", "r", "i", "m", " ", "%", "}">>,
     <<"{", "%", " ", "i", "f", " ", "t", "r", "u", "e", " ", "%", "}", "a", "{", "%", " ", "e", "n", "d", "i", "f", " ", "%", "}", "b">>}

OverlapInputs ==
    {MkInput("overlap", <<>>, src, {FixtureContext(TRUE)}, 1) : src \in OverlapSources}

\* {{ !x|unsafe }}: the operand, whether its value is a bool, and whether the
\* value is the zero value of its type (false, "", 0, 0.0)
NegateOperands ==
    {[text |-> <<"t", "r", "u", "e">>, bool |-> TRUE, zero |-> FALSE],
     [text |-> <<"f", "a", "l", "s", "e">>, bool |-> TRUE, zero |-> TRUE],
     [text |-> <<"\"", "\"">>, bool |-> FALSE, zero |-> TRUE],
     [text |-> <<"\"", "a", "\"">>, bool |-> FALSE, zero |-> FALSE],
     [text |-> <<"0">>, bool |-> FALSE, zero |-> TRUE],
     [text |-> <<"5">>, bool |-> FALSE, zero |-> FALSE],
     [text |-> <<"0", ".", "0">>, bool |-> FALSE, zero |-> TRUE],
     [text |-> <<"1", ".", "5">>, bool |-> FALSE, zero |-> FALSE],
     [text |-> sNameVar, bool |-> FALSE, zero |-> FALSE],
     [text |-> sOne, bool |-> FALSE, zero |-> FALSE],
     [text |-> sFoo, bool |-> FALSE, zero |-> TRUE],
     [text |-> sNames, bool |-> FALSE, zero |-> FALSE],
     [text |-> sAccounts, bool |-> FALSE, zero |-> FALSE]}

NegateInputs ==
    {MkInput("negate", op, Var(<<"!">> \o op.text \o <<"|", "u", "n", "s", "a", "f", "e">>), {FixtureContext(TRUE)}, 1) :
        op \in NegateOperands}

\* {% if x %}a{% else %}b{% endif %}: the condition and whether its value
\* differs from the zero value of its kind; empty and nomap are an empty
\* slice and an empty map of the Context
sEmptySlice == <<"e", "m", "p", "t", "y">>
sEmptyMap == <<"n", "o", "m", "a", "p">>
TruthConds ==
    {[text |-> <<"t", "r", "u", "e">>, truth |-> TRUE], [text |-> <<"f", "a", "l", "s", "e">>, truth |-> FALSE],
     [text |-> <<"\"", "\"">>, truth |-> FALSE], [text |-> <<"\"", "a", "\"">>, truth |-> TRUE],
     [text |-> <<"0">>, truth |-> FALSE], [text |-> <<"5">>, truth |-> TRUE],
     [text |-> <<"0", ".", "0">>, truth |-> FALSE], [text |-> <<"1", ".", "5">>, truth |-> TRUE],
     [text |-> sNameVar, truth |-> TRUE], [text |-> sOne, truth |-> TRUE],
     [text |-> sFoo, truth |-> FALSE], [text |-> sPerson, truth |-> TRUE],
     [text |-> sNames, truth |-> TRUE], [text |-> sEmptySlice, truth |-> FALSE],
     [text |-> sAccounts, truth |-> TRUE], [text |-> sEmptyMap, truth |-> FALSE]}

TruthContext ==
    FixtureContext(TRUE) @@ (sEmptySlice :> VSlice(<<>>)) @@ (sEmptyMap :> VMap(<<>>))

TruthInputs ==
    {MkInput("truth", c, Tag(<<"i", "f", " ">> \o c.text) \o <<"a">> \o Tag(sElse) \o <<"b">> \o Tag(sEndif),
             {TruthContext}, 1) : c \in TruthConds}

\* {% include [static] name %} and {% extends [static] name %}: the name is a
\* literal or an identifier, which the Context binds to the name of a
\* template (tpl_name) or does not bind (foo)
sTplName == <<"t", "p", "l", "_", "n", "a", "m", "e">>
StaticNames ==
    {[text |-> <<"\"", "g", "r", "e", "e", "t", "i", "n", "g", "s", "\"">>, ident |-> FALSE], [text |-> <<"\"", "f", "o", "o", "b", "a", "r", "\"">>, ident |-> FALSE],
     [text |-> sTplName, ident |-> TRUE], [text |-> sFoo, ident |-> TRUE]}
StaticShapes ==
    {[tag |-> tag, static |-> static, name |-> n] :
        tag \in {sInclude, sExtends}, static \in BOOLEAN, n \in StaticNames}
StaticSource(shape) ==
    Tag(shape.tag \o <<" ">> \o (IF shape.static THEN sStaticPrefix ELSE <<>>) \o shape.name.text)
    \o <<" ", "H", "o", "w">>
StaticContext == FixtureContext(TRUE) @@ (sTplName :> VString(sGreetings))
StaticInputs ==
    {MkInput("static", shape, StaticSource(shape), {StaticContext}, 1) : shape \in StaticShapes}

\* {% if x %}a{% else %}b{% endif %} with conditions that have the characters
\* of an operator inside a string literal, and what the comparison of the
\* operands gives
QuotedConds ==
    {[text |-> <<"\"", "F", "l", "o", "=", "=", "r", "i", "&", "&", "a", "n", "\"", "|", "l", "o", "w", "e", "r", " ", "=", "=", " ", "\"", "f", "l", "o", "=", "=", "r", "i", "&", "&", "a", "n", "\"">>, truth |-> TRUE],
     [text |-> <<"n", "a", "m", "e", " ", "=", "=", " ", "\"", "f", "l", "o", "=", "=", "r", "i", "&", "&", "a", "n", "\"">>, truth |-> FALSE],
     [text |-> <<"\"", "a", "<", "b", "\"", " ", "=", "=", " ", "\"", "a", "<", "b", "\"">>, truth |-> TRUE],
     [text |-> <<"\"", "a", "=", "=", "b", "\"", " ", "!", "=", " ", "\"", "a", "=", "=", "b", "\"">>, truth |-> FALSE],
     [text |-> <<"\"", "a", "|", "|", "b", "\"">>, truth |-> TRUE],
     [text |-> <<"\"", "a", "\"", " ", "=", "=", " ", "\"", "a", "\"">>, truth |-> TRUE],
     [text |-> <<"\"", "a", "\"", " ", "=", "=", " ", "\"", "b", "\"", " ", "|", "|", " ", "\"", "c", ">", "d", "\"", " ", "=", "=", " ", "\"", "c", ">", "d", "\"">>, truth |-> TRUE]}

QuotedInputs ==
    {MkInput("quoted", c, Tag(<<"i", "f", " ">> \o c.text) \o <<"a">> \o Tag(sElse) \o <<"b">> \o Tag(sEndif),
             {FixtureContext(TRUE)}, 1) : c \in QuotedConds}

\* {{ person.Method }} and {{ person.Method:a1,...,an }} for the methods of
\* *Person, with up to MaxCallArgs arguments, each a string literal or an
\* identifier the Context binds to a string; colon says that the `:` is
\* written (it is when there are arguments)
MaxCallArgs == 3
CallArgs == {[text |-> <<"\"", "x", "\"">>, val |-> <<"x">>], [text |-> sNameVar, val |-> sPongo]}
CallShapes ==
    {[method |-> m, args |-> args, colon |-> colon] :
        m \in DOMAIN PersonMethods,
        args \in UNION {[1..n -> CallArgs] : n \in 0..MaxCallArgs},
        colon \in BOOLEAN}
CallSource(shape) ==
    Var(sPerson \o <<".">> \o shape.method
        \o (IF shape.colon \/ shape.args # <<>> THEN <<":">> ELSE <<>>)
        \o Join([i \in 1..Len(shape.args) |-> shape.args[i].text], <<",">>))
CallInputs ==
    {MkInput("call", shape, CallSource(shape), {FixtureContext(TRUE)}, 1) : shape \in CallShapes}

\* Templates that include: the source and what the render returns when the
\* included template sees the Context of the caller and no block of the
\* caller, and the caller goes on after the include tag
IncludeCases ==
    {[src |-> <<"{", "%", " ", "i", "n", "c", "l", "u", "d", "e", " ", "\"", "g", "r", "e", "e", "t", "i", "n", "g", "s", "\"", " ", "%", "}", "!">>, out |-> <<"H", "e", "l", "l", "o", " ", "P", "o", "n", "g", "o", "!", "!">>],
     [src |-> <<"{", "%", " ", "f", "o", "r", " ", "n", "a", "m", "e", " ", "i", "n", " ", "n", "a", "m", "e", "s", " ", "%", "}", "{", "%", " ", "i", "n", "c", "l", "u", "d", "e", " ", "\"", "g", "r", "e", "e", "t", "i", "n", "g", "s", "\"", " ", "%", "}", "{", "%", " ", "e", "n", "d", "f", "o", "r", " ", "%", "}", "z">>,
      out |-> <<"H", "e", "l", "l", "o", " ", "A", "!", "H", "e", "l", "l", "o", " ", "B", "!", "z">>],
     [src |-> <<"{", "%", " ", "f", "o", "r", " ", "2", " ", "%", "}", "{", "%", " ", "i", "n", "c", "l", "u", "d", "e", " ", "\"", "c", "o", "u", "n", "t", "\"", " ", "%", "}", ",", "{", "%", " ", "e", "n", "d", "f", "o", "r", " ", "%", "}">>, out |-> <<"0", "d", ",", "1", "d", ",">>],
     [src |-> <<"{", "%", " ", "f", "o", "r", " ", "2", " ", "%", "}", "{", "%", " ", "f", "o", "r", " ", "2", " ", "%", "}", "{", "%", " ", "i", "n", "c", "l", "u", "d", "e", " ", "\"", "c", "o", "u", "n", "t", "\"", " ", "%", "}", "{", "%", " ", "e", "n", "d", "f", "o", "r", " ", "%", "}", "{", "%", " ", "e", "n", "d", "f", "o", "r", " ", "%", "}">>,
      out |-> <<"0", "d", "1", "d", "0", "d", "1", "d">>],
     [src |-> <<"{", "%", " ", "e", "x", "t", "e", "n", "d", "s", " ", "\"", "w", "r", "a", "p", "\"", " ", "%", "}", "{", "%", " ", "b", "l", "o", "c", "k", " ", "a", " ", "%", "}", "X", "{", "%", " ", "e", "n", "d", "b", "l", "o", "c", "k", " ", "%", "}">>, out |-> <<"X", "d">>],
     [src |-> <<"a", "{", "%", " ", "i", "n", "c", "l", "u", "d", "e", " ", "\"", "c", "o", "u", "n", "t", "\"", " ", "%", "}", "b", "{", "%", " ", "i", "n", "c", "l", "u", "d", "e", " ", "\"", "c", "o", "u", "n", "t", "\"", " ", "%", "}", "c">>, out |-> <<"a", "d", "b", "d", "c">>],
     [src |-> <<"{", "%", " ", "i", "n", "c", "l", "u", "d", "e", " ", "\"", "w", "r", "a", "p", "\"", " ", "%", "}", "{", "{", " ", "n", "a", "m", "e", " ", "}", "}">>, out |-> <<"1", "d", "P", "o", "n", "g", "o">>]}

IncludeInputs ==
    {[MkInput("include", c, c.src, {FixtureContext(TRUE)}, 1) EXCEPT !.files = IncludeFiles] :
        c \in IncludeCases}

\* {% if<ws>true %}a{% endif %} for several runs of whitespace between the
\* tag name and the argument
TagBodySpaces == {<<" ">>, <<"\t">>, <<"\n">>, <<" ", " ">>, <<" ", "\t">>, <<"\n", " ">>, <<"\r", "\n">>}
TagBodyInputs ==
    {MkInput("tagbody", ws, <<"{", "%", " ", "i", "f">> \o ws \o <<"t", "r", "u", "e", " ", "%", "}", "a">> \o Tag(sEndif),
             {FixtureContext(TRUE)}, 1) : ws \in TagBodySpaces}

\* Templates that skip a branch, a body or a block which holds structural
\* tags: the source and what the render returns when the skipped region ends
\* at the terminator of the tag that started it and nothing in it is rendered
\* or evaluated
SkipCases ==
    {[src |-> <<"{", "%", " ", "i", "f", " ", "f", "a", "l", "s", "e", " ", "%", "}", "{", "%", " ", "i", "f", " ", "t", "r", "u", "e", " ", "%", "}", "a", "{", "%", " ", "e", "l", "s", "e", " ", "%", "}", "b", "{", "%", " ", "e", "n", "d", "i", "f", " ", "%", "}", "c", "{", "%", " ", "e", "l", "s", "e", " ", "%", "}", "d", "{", "%", " ", "e", "n", "d", "i", "f", " ", "%", "}", "e">>, out |-> <<"d", "e">>],
     [src |-> <<"{", "%", " ", "i", "f", " ", "f", "a", "l", "s", "e", " ", "%", "}", "{", "%", " ", "f", "o", "r", " ", "2", " ", "%", "}", "a", "{", "%", " ", "e", "l", "s", "e", " ", "%", "}", "b", "{", "%", " ", "e", "n", "d", "f", "o", "r", " ", "%", "}", "c", "{", "%", " ", "e", "l", "s", "e", " ", "%", "}", "d", "{", "%", " ", "e", "n", "d", "i", "f", " ", "%", "}", "e">>, out |-> <<"d", "e">>],
     [src |-> <<"{", "%", " ", "f", "o", "r", " ", "0", " ", "%", "}", "{", "%", " ", "f", "o", "r", " ", "2", " ", "%", "}", "a", "{", "%", " ", "e", "l", "s", "e", " ", "%", "}", "b", "{", "%", " ", "e", "n", "d", "f", "o", "r", " ", "%", "}", "{", "%", " ", "e", "l", "s", "e", " ", "%", "}", "c", "{", "%", " ", "e", "n", "d", "f", "o", "r", " ", "%", "}", "e">>, out |-> <<"c", "e">>],
     [src |-> <<"{", "%", " ", "f", "o", "r", " ", "0", " ", "%", "}", "{", "%", " ", "i", "f", " ", "t", "r", "u", "e", " ", "%", "}", "a", "{", "%", " ", "e", "l", "s", "e", " ", "%", "}", "b", "{", "%", " ", "e", "n", "d", "i", "f", " ", "%", "}", "{", "%", " ", "e", "l", "s", "e", " ", "%", "}", "c", "{", "%", " ", "e", "n", "d", "f", "o", "r", " ", "%", "}", "e">>, out |-> <<"c", "e">>],
     [src |-> <<"{", "%", " ", "i", "f", " ", "t", "r", "u", "e", " ", "%", "}", "a", "{", "%", " ", "e", "l", "s", "e", " ", "%", "}", "{", "%", " ", "t", "r", "i", "m", " ", "%", "}", " ", "b", " ", "{", "%", " ", "e", "n", "d", "t", "r", "i", "m", " ", "%", "}", "{", "%", " ", "r", "e", "m", "o", "v", "e", " ", "%", "}", "c", "{", "%", " ", "e", "n", "d", "r", "e", "m", "o", "v", "e", " ", "%", "}", "{", "%", " ", "e", "n", "d", "i", "f", " ", "%", "}", "e">>, out |-> <<"a", "e">>],
     [src |-> <<"{", "%", " ", "f", "o", "r", " ", "2", " ", "%", "}", "a", "{", "%", " ", "e", "l", "s", "e", " ", "%", "}", "{", "%", " ", "f", "o", "r", " ", "1", " ", "%", "}", "b", "{", "%", " ", "e", "l", "s", "e", " ", "%", "}", "c", "{", "%", " ", "e", "n", "d", "f", "o", "r", " ", "%", "}", "{", "%", " ", "e", "n", "d", "f", "o", "r", " ", "%", "}", "e">>, out |-> <<"a", "a", "e">>],
     [src |-> <<"{", "%", " ", "i", "f", " ", "f", "a", "l", "s", "e", " ", "%", "}", "{", "%", " ", "b", "l", "o", "c", "k", " ", "a", " ", "%", "}", "x", "{", "%", " ", "e", "n", "d", "b", "l", "o", "c", "k", " ", "%", "}", "{", "%", " ", "e", "n", "d", "i", "f", " ", "%", "}", "e">>, out |-> <<"e">>],
     [src |-> <<"{", "%", " ", "i", "f", " ", "f", "a", "l", "s", "e", " ", "%", "}", "{", "%", " ", "i", "f", " ", "f", "a", "l", "s", "e", " ", "%", "}", "{", "%", " ", "i", "f", " ", "t", "r", "u", "e", " ", "%", "}", "a", "{", "%", " ", "e", "n", "d", "i", "f", " ", "%", "}", "{", "%", " ", "e", "l", "s", "e", " ", "%", "}", "b", "{", "%", " ", "e", "n", "d", "i", "f", " ", "%", "}", "{", "%", " ", "e", "n", "d", "i", "f", " ", "%", "}", "e">>, out |-> <<"e">>],
     [src |-> <<"{", "%", " ", "f", "o", "r", " ", "2", " ", "%", "}", "{", "%", " ", "i", "f", " ", "f", "a", "l", "s", "e", " ", "%", "}", "{", "%", " ", "f", "o", "r", " ", "3", " ", "%", "}", "{", "{", " ", "f", "o", "r", "c", "o", "u", "n", "t", "e", "r", " ", "}", "}", "{", "%", " ", "e", "n", "d", "f", "o", "r", " ", "%", "}", "{", "%", " ", "e", "n", "d", "i", "f", " ", "%", "}", "{", "{", " ", "f", "o", "r", "c", "o", "u", "n", "t", "e", "r", " ", "}", "}", "{", "%", " ", "e", "n", "d", "f", "o", "r", " ", "%", "}">>, out |-> <<"0", "1">>],
     [src |-> <<"{", "%", " ", "i", "f", " ", "f", "a", "l", "s", "e", " ", "%", "}", "{", "{", " ", "o", "n", "e", "|", "l", "o", "w", "e", "r", " ", "}", "}", "{", "%", " ", "f", "o", "r", " ", "w", " ", "i", "n", " ", "o", "n", "e", " ", "%", "}", "{", "%", " ", "e", "n", "d", "f", "o", "r", " ", "%", "}", "{", "%", " ", "i", "f", " ", "o", "n", "e", "|", "l", "o", "w", "e", "r", " ", "%", "}", "{", "%", " ", "e", "n", "d", "i", "f", " ", "%", "}", "{", "%", " ", "e", "n", "d", "i", "f", " ", "%", "}", "e">>, out |-> <<"e">>],
     [src |-> <<"{", "%", " ", "e", "x", "t", "e", "n", "d", "s", " ", "\"", "n", "e", "s", "t", "\"", " ", "%", "}", "{", "%", " ", "b", "l", "o", "c", "k", " ", "b", " ", "%", "}", "Y", "{", "%", " ", "e", "n", "d", "b", "l", "o", "c", "k", " ", "%", "}">>, out |-> <<"A", "1", "Y", "3", "C">>],
     [src |-> <<"{", "%", " ", "e", "x", "t", "e", "n", "d", "s", " ", "\"", "n", "e", "s", "t", "\"", " ", "%", "}", "{", "%", " ", "b", "l", "o", "c", "k", " ", "a", " ", "%", "}", "X", "{", "%", " ", "e", "n", "d", "b", "l", "o", "c", "k", " ", "%", "}">>, out |-> <<"A", "X", "C">>]}

SkipInputs ==
    {[MkInput("skip", c, c.src, {FixtureContext(TRUE)}, 1) EXCEPT !.files = IncludeFiles] :
        c \in SkipCases}

\* Loops followed by a read of a Context variable: the loop variable is new
\* (w), or has the name of a variable of the Context (name, one)
ScopeSources ==
    {<<"{", "%", " ", "f", "o", "r", " ", "w", " ", "i", "n", " ", "n", "a", "m", "e", "s", " ", "%", "}", "{", "{", " ", "w", " ", "}", "}", "{", "%", " ", "e", "n", "d", "f", "o", "r", " ", "%", "}", "{", "{", " ", "n", "a", "m", "e", " ", "}", "}">>,
     <<"{", "%", " ", "f", "o", "r", " ", "n", "a", "m", "e", " ", "i", "n", " ", "n", "a", "m", "e", "s", " ", "%", "}", "{", "{", " ", "n", "a", "m", "e", " ", "}", "}", "{", "%", " ", "e", "n", "d", "f", "o", "r", " ", "%", "}", "{", "{", " ", "n", "a", "m", "e", " ", "}", "}">>,
     <<"{", "%", " ", "f", "o", "r", " ", "o", "n", "e", " ", "i", "n", " ", "A", "c", "c", "o", "u", "n", "t", "s", " ", "%", "}", "{", "{", " ", "o", "n", "e", ".", "K", "e", "y", " ", "}", "}", "{", "%", " ", "e", "n", "d", "f", "o", "r", " ", "%", "}", "{", "{", " ", "o", "n", "e", " ", "}", "}">>,
     <<"{", "%", " ", "f", "o", "r", " ", "2", " ", "%", "}", "{", "%", " ", "f", "o", "r", " ", "n", "a", "m", "e", " ", "i", "n", " ", "n", "a", "m", "e", "s", " ", "%", "}", "{", "{", " ", "n", "a", "m", "e", " ", "}", "}", "{", "%", " ", "e", "n", "d", "f", "o", "r", " ", "%", "}", "{", "{", " ", "n", "a", "m", "e", " ", "}", "}", "{", "%", " ", "e", "n", "d", "f", "o", "r", " ", "%", "}">>,
     <<"{", "%", " ", "f", "o", "r", " ", "n", "a", "m", "e", " ", "i", "n", " ", "n", "a", "m", "e", " ", "%", "}", "{", "{", " ", "n", "a", "m", "e", " ", "}", "}", "{", "%", " ", "e", "l", "s", "e", " ", "%", "}", "b", "{", "%", " ", "e", "n", "d", "f", "o", "r", " ", "%", "}", "{", "{", " ", "n", "a", "m", "e", "s", "|", "j", "o", "i", "n", ":", "\"", ",", "\"", " ", "}", "}">>}

ScopeInputs ==
    {MkInput("scope", <<>>, src, {FixtureContext(TRUE)}, 1) : src \in ScopeSources}

\* for tags in both forms with names that hold the letters in: the source,
\* the form and the loop variable the tag has, and what the render returns
sLines == <<"l", "i", "n", "e", "s">>
sLinecount == <<"l", "i", "n", "e", "c", "o", "u", "n", "t">>
ForInCases ==
    {[src |-> <<"{", "%", " ", "f", "o", "r", " ", "l", "i", "n", "e", " ", "i", "n", " ", "l", "i", "n", "e", "s", " ", "%", "}", "{", "{", " ", "l", "i", "n", "e", " ", "}", "}", "{", "%", " ", "e", "n", "d", "f", "o", "r", " ", "%", "}">>, form |-> "in", varname |-> <<"l", "i", "n", "e">>, out |-> <<"x", "y">>],
     [src |-> <<"{", "%", " ", "f", "o", "r", " ", "l", "i", "n", "e", "c", "o", "u", "n", "t", " ", "%", "}", "z", "{", "%", " ", "e", "n", "d", "f", "o", "r", " ", "%", "}">>, form |-> "count", varname |-> <<>>, out |-> <<"z", "z">>],
     [src |-> <<"{", "%", " ", "f", "o", "r", " ", "w", " ", "i", "n", " ", "l", "i", "n", "e", "s", " ", "%", "}", "{", "{", " ", "w", " ", "}", "}", "{", "%", " ", "e", "n", "d", "f", "o", "r", " ", "%", "}">>, form |-> "in", varname |-> <<"w">>, out |-> <<"x", "y">>],
     [src |-> <<"{", "%", " ", "f", "o", "r", " ", "w", " ", "i", "n", " ", "n", "a", "m", "e", "s", " ", "%", "}", "{", "{", " ", "w", " ", "}", "}", "{", "%", " ", "e", "n", "d", "f", "o", "r", " ", "%", "}">>, form |-> "in", varname |-> <<"w">>, out |-> <<"a", "b">>],
     [src |-> <<"{", "%", " ", "f", "o", "r", " ", "o", "n", "e", " ", "%", "}", "z", "{", "%", " ", "e", "n", "d", "f", "o", "r", " ", "%", "}">>, form |-> "count", varname |-> <<>>, out |-> <<"z">>]}

ForInContext ==
    FixtureContext(TRUE) @@ (sLines :> VSlice(<<VString(<<"x">>), VString(<<"y">>)>>))
    @@ (sLinecount :> VInt(2))

ForInInputs == {MkInput("forin", c, c.src, {ForInContext}, 1) : c \in ForInCases}

\* for tags over every kind of source, with and without an else body: the
\* source, the outputs the loop may have (a map is iterated in any order) and
\* whether the render fails
sNeg == <<"n", "e", "g">>
sBlank == <<"b", "l", "a", "n", "k">>
sPair == <<"p", "a", "i", "r">>
CountCases ==
    {[src |-> <<"{", "%", " ", "f", "o", "r", " ", "0", " ", "%", "}", "{", "{", " ", "f", "o", "r", "c", "o", "u", "n", "t", "e", "r", " ", "}", "}", "{", "%", " ", "e", "l", "s", "e", " ", "%", "}", "E", "{", "%", " ", "e", "n", "d", "f", "o", "r", " ", "%", "}">>, outs |-> {<<"E">>}, fails |-> FALSE],
     [src |-> <<"{", "%", " ", "f", "o", "r", " ", "0", " ", "%", "}", "{", "{", " ", "f", "o", "r", "c", "o", "u", "n", "t", "e", "r", " ", "}", "}", "{", "%", " ", "e", "n", "d", "f", "o", "r", " ", "%", "}">>, outs |-> {<<>>}, fails |-> FALSE],
     [src |-> <<"{", "%", " ", "f", "o", "r", " ", "1", " ", "%", "}", "{", "{", " ", "f", "o", "r", "c", "o", "u", "n", "t", "e", "r", " ", "}", "}", "{", "%", " ", "e", "l", "s", "e", " ", "%", "}", "E", "{", "%", " ", "e", "n", "d", "f", "o", "r", " ", "%", "}">>, outs |-> {<<"0">>}, fails |-> FALSE],
     [src |-> <<"{", "%", " ", "f", "o", "r", " ", "3", " ", "%", "}", "{", "{", " ", "f", "o", "r", "c", "o", "u", "n", "t", "e", "r", " ", "}", "}", "{", "%", " ", "e", "l", "s", "e", " ", "%", "}", "E", "{", "%", " ", "e", "n", "d", "f", "o", "r", " ", "%", "}">>, outs |-> {<<"0", "1", "2">>}, fails |-> FALSE],
     [src |-> <<"{", "%", " ", "f", "o", "r", " ", "3", " ", "%", "}", "{", "{", " ", "f", "o", "r", "c", "o", "u", "n", "t", "e", "r", " ", "}", "}", "{", "%", " ", "e", "n", "d", "f", "o", "r", " ", "%", "}">>, outs |-> {<<"0", "1", "2">>}, fails |-> FALSE],
     [src |-> <<"{", "%", " ", "f", "o", "r", " ", "n", "e", "g", " ", "%", "}", "{", "{", " ", "f", "o", "r", "c", "o", "u", "n", "t", "e", "r", " ", "}", "}", "{", "%", " ", "e", "l", "s", "e", " ", "%", "}", "E", "{", "%", " ", "e", "n", "d", "f", "o", "r", " ", "%", "}">>, outs |-> {<<"E">>}, fails |-> FALSE],
     [src |-> <<"{", "%", " ", "f", "o", "r", " ", "n", "e", "g", " ", "%", "}", "{", "{", " ", "f", "o", "r", "c", "o", "u", "n", "t", "e", "r", " ", "}", "}", "{", "%", " ", "e", "n", "d", "f", "o", "r", " ", "%", "}">>, outs |-> {<<>>}, fails |-> FALSE],
     [src |-> <<"{", "%", " ", "f", "o", "r", " ", "o", "n", "e", " ", "%", "}", "{", "{", " ", "f", "o", "r", "c", "o", "u", "n", "t", "e", "r", " ", "}", "}", "{", "%", " ", "e", "l", "s", "e", " ", "%", "}", "E", "{", "%", " ", "e", "n", "d", "f", "o", "r", " ", "%", "}">>, outs |-> {<<"0">>}, fails |-> FALSE],
     [src |-> <<"{", "%", " ", "f", "o", "r", " ", "n", "a", "m", "e", "|", "l", "e", "n", "g", "t", "h", " ", "%", "}", "{", "{", " ", "f", "o", "r", "c", "o", "u", "n", "t", "e", "r", " ", "}", "}", "{", "%", " ", "e", "l", "s", "e", " ", "%", "}", "E", "{", "%", " ", "e", "n", "d", "f", "o", "r", " ", "%", "}">>, outs |-> {<<"0", "1", "2", "3", "4">>}, fails |-> FALSE],
     [src |-> <<"{", "%", " ", "f", "o", "r", " ", "w", " ", "i", "n", " ", "n", "a", "m", "e", "s", " ", "%", "}", "{", "{", " ", "w", " ", "}", "}", "{", "%", " ", "e", "l", "s", "e", " ", "%", "}", "E", "{", "%", " ", "e", "n", "d", "f", "o", "r", " ", "%", "}">>, outs |-> {<<"a", "b">>}, fails |-> FALSE],
     [src |-> <<"{", "%", " ", "f", "o", "r", " ", "w", " ", "i", "n", " ", "e", "m", "p", "t", "y", " ", "%", "}", "{", "{", " ", "w", " ", "}", "}", "{", "%", " ", "e", "l", "s", "e", " ", "%", "}", "E", "{", "%", " ", "e", "n", "d", "f", "o", "r", " ", "%", "}">>, outs |-> {<<"E">>}, fails |-> FALSE],
     [src |-> <<"{", "%", " ", "f", "o", "r", " ", "w", " ", "i", "n", " ", "e", "m", "p", "t", "y", " ", "%", "}", "{", "{", " ", "w", " ", "}", "}", "{", "%", " ", "e", "n", "d", "f", "o", "r", " ", "%", "}">>, outs |-> {<<>>}, fails |-> FALSE],
     [src |-> <<"{", "%", " ", "f", "o", "r", " ", "c", " ", "i", "n", " ", "n", "a", "m", "e", " ", "%", "}", "{", "{", " ", "c", " ", "}", "}", "{", "%", " ", "e", "l", "s", "e", " ", "%", "}", "E", "{", "%", " ", "e", "n", "d", "f", "o", "r", " ", "%", "}">>, outs |-> {<<"P", "o", "n", "g", "o">>}, fails |-> FALSE],
     [src |-> <<"{", "%", " ", "f", "o", "r", " ", "c", " ", "i", "n", " ", "b", "l", "a", "n", "k", " ", "%", "}", "{", "{", " ", "c", " ", "}", "}", "{", "%", " ", "e", "l", "s", "e", " ", "%", "}", "E", "{", "%", " ", "e", "n", "d", "f", "o", "r", " ", "%", "}">>, outs |-> {<<"E">>}, fails |-> FALSE],
     [src |-> <<"{", "%", " ", "f", "o", "r", " ", "w", " ", "i", "n", " ", "p", "a", "i", "r", " ", "%", "}", "{", "{", " ", "w", ".", "K", "e", "y", " ", "}", "}", "{", "{", " ", "w", ".", "V", "a", "l", "u", "e", " ", "}", "}", "{", "%", " ", "e", "l", "s", "e", " ", "%", "}", "E", "{", "%", " ", "e", "n", "d", "f", "o", "r", " ", "%", "}">>, outs |-> {<<"a", "1", "b", "2">>, <<"b", "2", "a", "1">>}, fails |-> FALSE],
     [src |-> <<"{", "%", " ", "f", "o", "r", " ", "w", " ", "i", "n", " ", "n", "o", "m", "a", "p", " ", "%", "}", "{", "{", " ", "w", ".", "K", "e", "y", " ", "}", "}", "{", "%", " ", "e", "l", "s", "e", " ", "%", "}", "E", "{", "%", " ", "e", "n", "d", "f", "o", "r", " ", "%", "}">>, outs |-> {<<"E">>}, fails |-> FALSE],
     [src |-> <<"{", "%", " ", "f", "o", "r", " ", "w", " ", "i", "n", " ", "A", "c", "c", "o", "u", "n", "t", "s", " ", "%", "}", "{", "{", " ", "w", ".", "K", "e", "y", " ", "}", "}", "{", "{", " ", "w", ".", "V", "a", "l", "u", "e", " ", "}", "}", "{", "%", " ", "e", "n", "d", "f", "o", "r", " ", "%", "}">>, outs |-> {<<"d", "e", "f", "a", "u", "l", "t", "7">>}, fails |-> FALSE],
     [src |-> <<"{", "%", " ", "f", "o", "r", " ", "n", "a", "m", "e", " ", "%", "}", "{", "{", " ", "f", "o", "r", "c", "o", "u", "n", "t", "e", "r", " ", "}", "}", "{", "%", " ", "e", "l", "s", "e", " ", "%", "}", "E", "{", "%", " ", "e", "n", "d", "f", "o", "r", " ", "%", "}">>, outs |-> {<<>>}, fails |-> TRUE],
     [src |-> <<"{", "%", " ", "f", "o", "r", " ", "1", ".", "5", " ", "%", "}", "{", "{", " ", "f", "o", "r", "c", "o", "u", "n", "t", "e", "r", " ", "}", "}", "{", "%", " ", "e", "l", "s", "e", " ", "%", "}", "E", "{", "%", " ", "e", "n", "d", "f", "o", "r", " ", "%", "}">>, outs |-> {<<>>}, fails |-> TRUE],
     [src |-> <<"{", "%", " ", "f", "o", "r", " ", "n", "a", "m", "e", "s", " ", "%", "}", "{", "{", " ", "f", "o", "r", "c", "o", "u", "n", "t", "e", "r", " ", "}", "}", "{", "%", " ", "e", "l", "s", "e", " ", "%", "}", "E", "{", "%", " ", "e", "n", "d", "f", "o", "r", " ", "%", "}">>, outs |-> {<<>>}, fails |-> TRUE],
     [src |-> <<"{", "%", " ", "f", "o", "r", " ", "t", "r", "u", "e", " ", "%", "}", "{", "{", " ", "f", "o", "r", "c", "o", "u", "n", "t", "e", "r", " ", "}", "}", "{", "%", " ", "e", "n", "d", "f", "o", "r", " ", "%", "}">>, outs |-> {<<>>}, fails |-> TRUE],
     [src |-> <<"{", "%", " ", "f", "o", "r", " ", "\"", "3", "\"", " ", "%", "}", "{", "{", " ", "f", "o", "r", "c", "o", "u", "n", "t", "e", "r", " ", "}", "}", "{", "%", " ", "e", "l", "s", "e", " ", "%", "}", "E", "{", "%", " ", "e", "n", "d", "f", "o", "r", " ", "%", "}">>, outs |-> {<<>>}, fails |-> TRUE]}

CountContext ==
    TruthContext @@ (sNeg :> VInt(-1)) @@ (sBlank :> VString(<<>>))
    @@ (sPair :> VMap((<<"a">> :> VInt(1)) @@ (<<"b">> :> VInt(2))))

CountInputs == {MkInput("count", c, c.src, {CountContext}, 1) : c \in CountCases}

\* {{ }} expressions without the unsafe filter over Context values that hold
\* < and >: a string, a slice of strings and a struct, with the text rendered
sTagsVar == <<"t", "a", "g", "s">>
sRec == <<"r", "e", "c">>
EscapeCases ==
    {[src |-> <<"u">>, out |-> <<"a", "&", "l", "t", ";">>],
     [src |-> <<"u", "|", "u", "p", "p", "e", "r">>, out |-> <<"A", "&", "l", "t", ";">>],
     [src |-> <<"u", "|", "s", "a", "f", "e", "|", "u", "p", "p", "e", "r">>, out |-> <<"A", "&", "L", "T", ";">>],
     [src |-> <<"u", "|", "l", "o", "w", "e", "r", "|", "s", "a", "f", "e">>, out |-> <<"a", "&", "l", "t", ";">>],
     [src |-> <<"r", "e", "c", ".", "V", "a", "l", "u", "e">>, out |-> <<"&", "l", "t", ";", "b", "&", "g", "t", ";">>],
     [src |-> <<"t", "a", "g", "s", ".", "0">>, out |-> <<"&", "l", "t", ";", "i", "&", "g", "t", ";">>],
     [src |-> <<"t", "a", "g", "s", "|", "j", "o", "i", "n", ":", "w">>, out |-> <<"&", "l", "t", ";", "i", "&", "g", "t", ";", "c", "b">>],
     [src |-> <<"t", "a", "g", "s", "|", "l", "e", "n", "g", "t", "h">>, out |-> <<"2">>],
     [src |-> <<"t", "a", "g", "s">>, out |-> <<"[", "<", "i", ">", " ", "b", "]">>],
     [src |-> <<"r", "e", "c">>, out |-> <<"{", "k", " ", "<", "b", ">", "}">>],
     [src |-> <<"t", "a", "g", "s", "|", "s", "a", "f", "e", "|", "j", "o", "i", "n", ":", "w">>, out |-> <<"<", "i", ">", "c", "b">>],
     [src |-> <<"x", "|", "s", "a", "f", "e", "|", "d", "e", "f", "a", "u", "l", "t", ":", "u">>, out |-> <<"a", "<">>],
     [src |-> <<"r", "e", "c", "|", "s", "a", "f", "e", "|", "s", "a", "f", "e">>, out |-> <<"{", "k", " ", "<", "b", ">", "}">>]}

EscapeContext ==
    FixtureContext(TRUE) @@ (sU :> VString(<<"a", "<">>)) @@ (sW :> VString(<<"c">>))
    @@ (sTagsVar :> VSlice(<<VString(<<"<", "i", ">">>), VString(<<"b">>)>>))
    @@ (sRec :> VStruct("KeyValue", (sKey :> VString(<<"k">>)) @@ (sValue :> VString(<<"<", "b", ">">>))))

EscapeInputs == {MkInput("escape", c, Var(c.src), {EscapeContext}, 1) : c \in EscapeCases}

\* if tags whose condition is a || b && c over the boolean literals
BoolText(b) == IF b THEN <<"t", "r", "u", "e">> ELSE <<"f", "a", "l", "s", "e">>
PrecInputs ==
    {MkInput("prec", [a |-> a, b |-> b, c |-> c],
             Tag(<<"i", "f", " ">> \o BoolText(a) \o <<" ", "|", "|", " ">> \o BoolText(b) \o <<" ", "&", "&", " ">> \o BoolText(c))
             \o <<"Y">> \o Tag(<<"e", "l", "s", "e">>) \o <<"N">> \o Tag(<<"e", "n", "d", "i", "f">>),
             {FixtureContext(TRUE)}, 1) : a \in BOOLEAN, b \in BOOLEAN, c \in BOOLEAN}

\* remove tags: the source and the body with the patterns deleted in the
\* order written, or with the whitespace deleted when no pattern is given
RemoveCases ==
    {[src |-> <<"{", "%", " ", "r", "e", "m", "o", "v", "e", " ", "\"", " ", "\"", ",", "\"", "\t", "\"", " ", "%", "}", "\t", " ", " ", " ", "h", "e", "l", "l", "o", " ", " ", "\t", " ", "{", "%", " ", "e", "n", "d", "r", "e", "m", "o", "v", "e", " ", "%", "}">>, out |-> <<"h", "e", "l", "l", "o">>],
     [src |-> <<"{", "%", " ", "r", "e", "m", "o", "v", "e", " ", "\"", "b", "b", "\"", ",", "\"", "a", "a", "\"", " ", "%", "}", "a", "b", "b", "a", "{", "%", " ", "e", "n", "d", "r", "e", "m", "o", "v", "e", " ", "%", "}">>, out |-> <<>>],
     [src |-> <<"{", "%", " ", "r", "e", "m", "o", "v", "e", " ", "\"", "a", "a", "\"", ",", "\"", "b", "b", "\"", " ", "%", "}", "a", "b", "b", "a", "{", "%", " ", "e", "n", "d", "r", "e", "m", "o", "v", "e", " ", "%", "}">>, out |-> <<"a", "a">>],
     [src |-> <<"{", "%", " ", "r", "e", "m", "o", "v", "e", " ", "%", "}", " ", "a", "\t", "b", "\n", "c", "\r", "d", " ", "{", "%", " ", "e", "n", "d", "r", "e", "m", "o", "v", "e", " ", "%", "}">>, out |-> <<"a", "b", "c", "d">>],
     [src |-> <<"{", "%", " ", "r", "e", "m", "o", "v", "e", " ", "%", "}", "{", "%", " ", "i", "f", " ", "f", "a", "l", "s", "e", " ", "%", "}", " ", "x", "{", "%", " ", "e", "l", "s", "e", " ", "%", "}", " ", " ", "y", "e", "s", " ", "\t", "{", "%", " ", "e", "n", "d", "i", "f", " ", "%", "}", " ", "\n", "{", "%", " ", "e", "n", "d", "r", "e", "m", "o", "v", "e", " ", "%", "}">>, out |-> <<"y", "e", "s">>],
     [src |-> <<"{", "%", " ", "r", "e", "m", "o", "v", "e", " ", "\"", "o", "\"", " ", "%", "}", "a", "{", "{", " ", "n", "a", "m", "e", " ", "}", "}", "o", "{", "%", " ", "e", "n", "d", "r", "e", "m", "o", "v", "e", " ", "%", "}">>, out |-> <<"a", "P", "n", "g">>],
     [src |-> <<"{", "%", " ", "r", "e", "m", "o", "v", "e", " ", "n", "a", "m", "e", " ", "%", "}", "x", "P", "o", "n", "g", "o", "y", "P", "o", "n", "g", "o", "{", "%", " ", "e", "n", "d", "r", "e", "m", "o", "v", "e", " ", "%", "}">>, out |-> <<"x", "y">>],
     [src |-> <<"{", "%", " ", "r", "e", "m", "o", "v", "e", " ", "\"", "a", "\"", " ", "%", "}", "x", "a", " ", "y", "\t", "a", "{", "%", " ", "e", "n", "d", "r", "e", "m", "o", "v", "e", " ", "%", "}">>, out |-> <<"x", " ", "y", "\t">>],
     [src |-> <<"{", "%", " ", "r", "e", "m", "o", "v", "e", " ", "\"", ",", "\"", " ", "%", "}", "a", ",", "b", ",", "{", "%", " ", "e", "n", "d", "r", "e", "m", "o", "v", "e", " ", "%", "}">>, out |-> <<"a", "b">>],
     [src |-> <<"{", "%", " ", "r", "e", "m", "o", "v", "e", " ", "\"", "a", "\"", ",", " ", "\"", "b", "\"", " ", "%", "}", "c", "a", "b", "c", "{", "%", " ", "e", "n", "d", "r", "e", "m", "o", "v", "e", " ", "%", "}">>, out |-> <<"c", "c">>],
     [src |-> <<"{", "%", " ", "r", "e", "m", "o", "v", "e", " ", "\"", "h", "e", "l", "l", "o", "\"", ",", "\"", " ", "\"", ",", "\"", "\t", "\"", " ", "%", "}", "\t", " ", "{", "%", " ", "i", "f", " ", "t", "r", "u", "e", " ", "%", "}", "\t", " ", " ", "h", "e", "l", "l", "o", " ", "\t", "{", "%", " ", "e", "n", "d", "i", "f", " ", "%", "}", " ", "\t", "{", "%", " ", "e", "n", "d", "r", "e", "m", "o", "v", "e", " ", "%", "}">>, out |-> <<>>],
     [src |-> <<"{", "%", " ", "r", "e", "m", "o", "v", "e", " ", "\"", "a", "b", "\"", ",", "\"", "c", "\"", " ", "%", "}", "a", "a", "b", "c", "b", "{", "%", " ", "e", "n", "d", "r", "e", "m", "o", "v", "e", " ", "%", "}">>, out |-> <<"a", "b">>]}

RemoveInputs == {MkInput("remove", c, c.src, {FixtureContext(TRUE)}, 1) : c \in RemoveCases}

RenderInputs == ChainInputs \cup ArgInputs \cup LoopInputs \cup IfInputs
                \cup ExtendsInputs \cup OtherInputs \cup ContentInputs
                \cup UnterminatedInputs \cup OverlapInputs \cup NegateInputs
                \cup TruthInputs \cup StaticInputs
                \cup QuotedInputs \cup CallInputs \cup IncludeInputs
                \cup TagBodyInputs \cup SkipInputs \cup ScopeInputs
                \cup ForInInputs \cup CountInputs \cup EscapeInputs
                \cup PrecInputs \cup RemoveInputs

\* The program state as one record, and the assignment of the record a step
\* returns
Machine ==
    [templates |-> templates, files |-> input.files, ecs |-> ecs,
     internal_contexts |-> internal_contexts, ctx |-> ctx, heap |-> heap,
     stack |-> stack, ret |-> ret]

Apply(m) ==
    /\ templates' = m.templates
    /\ ecs' = m.ecs
    /\ internal_contexts' = m.internal_contexts
    /\ ctx' = m.ctx
    /\ heap' = m.heap
    /\ stack' = m.stack
    /\ ret' = m.ret
    /\ UNCHANGED <<input, renders, name, resolved, gs, parser, response>>

Running(fn) == stack # <<>> /\ stack[Len(stack)].fn = fn

\* The program after FromString returned tpl
Parsed(tpl) ==
    /\ templates = IF tpl.err = "" THEN <<tpl.tpl>> ELSE <<>>
    /\ ret = RetErr(tpl.err)

\* FromString("gotest", src, locator)
InitRender ==
    /\ input \in RenderInputs
    /\ Parsed(FromString(<<"g", "o", "t", "e", "s", "t">>, input.src))
    /\ ecs = <<>>
    /\ internal_contexts = <<>>
    /\ stack = <<>>
    /\ renders = 0
    /\ ctx = <<>>
    /\ heap = FixtureHeap
    /\ name = <<>>
    /\ resolved = <<>>
    /\ gs = <<>>
    /\ parser = <<>>
    /\ response = <<>>

\* Template.Execute(ctx): a new execution context and a new internal context
\* for the parsed template; the templates created by earlier renders are
\* garbage
Execute ==
    /\ stack = <<>>
    /\ templates # <<>>
    /\ renders < input.renders
    /\ \E c \in input.contexts : ctx' = c
    /\ heap' = FixtureHeap
    /\ templates' = <<templates[1]>>
    /\ internal_contexts' = <<<<>>>>
    /\ ecs' = <<[template |-> 1, node_pos |-> 0, internal_context |-> 1]>>
    /\ stack' = <<executeFrame(1)>>
    /\ ret' = RetOut(<<>>)
    /\ renders' = renders + 1
    /\ UNCHANGED <<input, name, resolved, gs, parser, response>>

execute == Running("execute") /\ Apply(stepExecute(Machine))
executeUntilAnyTagNode ==
    Running("executeUntilAnyTagNode") /\ Apply(stepExecuteUntilAnyTagNode(Machine))
ignoreUntilAnyTagNode ==
    Running("ignoreUntilAnyTagNode") /\ Apply(stepIgnoreUntilAnyTagNode(Machine))
tagIf == Running("tagIf") /\ Apply(stepTagIf(Machine))
tagIfIgnore == Running("tagIfIgnore") /\ Apply(stepIgnoreWithElse(Machine, sEndif))
tagFor == Running("tagFor") /\ \E order \in ForOrders(Machine) : Apply(stepTagFor(Machine, order))
tagForIgnore == Running("tagForIgnore") /\ Apply(stepIgnoreWithElse(Machine, sEndfor))
tagBlock == Running("tagBlock") /\ Apply(stepTagBlock(Machine))
tagTrim == Running("tagTrim") /\ Apply(stepTagTrim(Machine))
tagTrimIgnore == Running("tagTrimIgnore") /\ Apply(stepIgnoreSimple(Machine, sEndtrim))
tagRemove == Running("tagRemove") /\ Apply(stepTagRemove(Machine))
tagRemoveIgnore == Running("tagRemoveIgnore") /\ Apply(stepIgnoreSimple(Machine, sEndremove))
tagExtends == Running("tagExtends") /\ Apply(stepTagExtends(Machine))
tagInclude == Running("tagInclude") /\ Apply(stepTagInclude(Machine))

NextRender ==
    \/ Execute
    \/ execute
    \/ executeUntilAnyTagNode
    \/ ignoreUntilAnyTagNode
    \/ tagIf
    \/ tagIfIgnore
    \/ tagFor
    \/ tagForIgnore
    \/ tagBlock
    \/ tagTrim
    \/ tagTrimIgnore
    \/ tagRemove
    \/ tagRemoveIgnore
    \/ tagExtends
    \/ tagInclude

SpecRender == InitRender /\ [][NextRender]_vars

\* A render has returned: ret is what Template.Execute returns
Rendered == stack = <<>> /\ renders > 0

(***************************************************************************)
(* Specification SpecConc: two goroutines render the same parsed template  *)
(* of one filter node, each with its own Context.  The execution context,  *)
(* its cursor and the Context belong to one render; the parsed expression  *)
(* of the node is shared, and evalValue reads and assigns its argument     *)
(* slots without synchronisation.  A slot is an interface value (a         *)
(* reflect.Value for root_args): the assignment stores its type word and   *)
(* its data word one after the other, in either order, and a read between  *)
(* the two stores sees the type of one value with the data of the other.   *)
(* gs[g] holds the locals of goroutine g:                                  *)
(*   pc, ctx, content (the method), value, at (root or filter), i, j,      *)
(*   applied_filters (the chain context), rv (the resolved value being     *)
(*   stored), word (the word already stored), res (what evalString         *)
(*   returns).                                                             *)
(***************************************************************************)
Goroutines == {1, 2}
Words == {"k", "v"}

ConcInputs ==
    {MkInput("conc", <<>>, Var(src), ExprContexts, 1) : src \in ArgSources}

Idle ==
    [pc |-> "idle", ctx |-> <<>>, content |-> EmptyString, value |-> EmptyString,
     at |-> "root", i |-> 0, j |-> 0, applied_filters |-> <<>>, rv |-> EmptyString,
     word |-> "", res |-> [err |-> "", out |-> <<>>]]

InitConc ==
    /\ input \in ConcInputs
    /\ Parsed(FromString(<<"g", "o", "t", "e", "s", "t">>, input.src))
    /\ gs = [g \in Goroutines |-> Idle]
    /\ heap = FixtureHeap
    /\ ctx = <<>>
    /\ ecs = <<>>
    /\ internal_contexts = <<>>
    /\ stack = <<>>
    /\ renders = 0
    /\ name = <<>>
    /\ resolved = <<>>
    /\ parser = <<>>
    /\ response = <<>>

\* The expression both renders evaluate
SharedExpr == templates[1].nodes[1].e

\* e.root_args or filter.args of the filter the goroutine is at
Slots(e, g) == IF g.at = "root" THEN e.root_args ELSE e.filters[g.j].args
SetSlot(e, g, val) ==
    IF g.at = "root" THEN [e EXCEPT !.root_args[g.i] = val]
    ELSE [e EXCEPT !.filters[g.j].args[g.i] = val]

\* One word of rv stored into the slot
StoreWord(slot, rv, w) ==
    IF w = "k" THEN [slot EXCEPT !.k = rv.k] ELSE [slot EXCEPT !.v = rv.v]

\* evalValue returns an error
Done(g, err) == [g EXCEPT !.pc = "done", !.res = [err |-> err, out |-> <<>>]]

\* The step of goroutine g leaves the shared expression e and the locals l
ConcApply(g, e, l) ==
    /\ templates' = [templates EXCEPT ![1].nodes[1].e = e]
    /\ gs' = [gs EXCEPT ![g] = l]
    /\ UNCHANGED <<name, resolved, input, ecs, internal_contexts, ctx, heap, stack, ret,
                   renders, parser, response>>

\* evalValue after the root identifier is resolved
concRooted(g, e, content) ==
    IF content.err # "" THEN Done(g, content.err)
    ELSE IF content.val.k # "method"
    THEN [g EXCEPT !.pc = "filters", !.j = 1, !.value = content.val]
    ELSE IF Len(e.root_args) # PersonMethods[content.val.v.method]
    THEN [g EXCEPT !.pc = "filters", !.j = 1, !.value = EmptyString]
    ELSE [g EXCEPT !.pc = "args", !.at = "root", !.i = 1, !.content = content.val]

concRoot(g, e, hp) ==
    IF e.root.k # "ident" THEN [g EXCEPT !.pc = "filters", !.j = 1, !.value = e.root]
    ELSE concRooted(g, e, resolveIdent(e.root.v, g.ctx, hp))

\* An identifier argument is resolved to r
concResolved(g, r) ==
    IF r.err # "" THEN Done(g, r.err) ELSE [g EXCEPT !.pc = "store", !.rv = r.val]

\* One round of a loop over the argument slots: the slot is read
concArgRead(g, slot, hp) ==
    IF slot.k = "ident" THEN concResolved(g, resolveIdent(slot.v, g.ctx, hp))
    ELSE [g EXCEPT !.i = @ + 1]

concArg(g, e, hp) ==
    IF g.i > Len(Slots(e, g)) THEN [g EXCEPT !.pc = "call"]
    ELSE concArgRead(g, Slots(e, g)[g.i], hp)

\* The locals after word w is stored
concStored(g, w) ==
    IF g.word = "" THEN [g EXCEPT !.word = w]
    ELSE [g EXCEPT !.pc = "args", !.i = @ + 1, !.word = ""]

\* method.Call(e.root_args) returned call
concCalled(g, call) ==
    IF call.panic THEN Done(g, "panic")
    ELSE [g EXCEPT !.pc = "filters", !.j = 1, !.value = call.results[1]]

\* filter.fn(value, filter.args, chainCtx) returned r
concFiltered(g, e, r) ==
    IF r.err # "" THEN Done(g, "Filter failed")
    ELSE [g EXCEPT !.pc = "filters", !.j = @ + 1, !.value = r.val,
                   !.applied_filters = Append(@, e.filters[g.j].name)]

concCall(g, e, hp) ==
    IF g.at = "root" THEN concCalled(g, CallMethod(g.content, e.root_args))
    ELSE concFiltered(g, e, callFilter(e.filters[g.j].name, g.value, e.filters[g.j].args,
                                       g.applied_filters, hp))

\* A loop head that does not record a filter registered without a function
concFilter_MarkerNotRecorded(g, e) ==
    IF ~FilterHasFn(e.filters[g.j].name)
    THEN [g EXCEPT !.j = @ + 1]
    ELSE [g EXCEPT !.pc = "args", !.at = "filter", !.i = 1]

\* The head of the loop over e.filters
concFilter(g, e) ==
    IF ~FilterHasFn(e.filters[g.j].name)
    THEN [g EXCEPT !.j = @ + 1, !.applied_filters = Append(@, e.filters[g.j].name)]
    ELSE [g EXCEPT !.pc = "args", !.at = "filter", !.i = 1]

\* The end of evalValue and evalString
concPrinted(g, r, hp) ==
    IF r.err # "" THEN Done(g, r.err)
    ELSE [g EXCEPT !.pc = "done", !.res = [err |-> "", out |-> Sprintv(r.val, TRUE, hp)]]

concReturn(g, e, hp) ==
    IF e.negate THEN concPrinted(g, negateValue(g.value), hp)
    ELSE concPrinted(g, [err |-> "", val |-> g.value], hp)

\* go tpl.Execute(&c): the render reaches the filter node
ConcExecute ==
    \E g \in Goroutines :
        /\ gs[g].pc = "idle"
        /\ \E c \in input.contexts : gs' = [gs EXCEPT ![g] = [@ EXCEPT !.pc = "root", !.ctx = c]]
        /\ UNCHANGED <<name, resolved, input, templates, ecs, internal_contexts, ctx, heap,
                       stack, ret, renders, parser, response>>

ConcRoot ==
    \E g \in Goroutines :
        gs[g].pc = "root" /\ ConcApply(g, SharedExpr, concRoot(gs[g], SharedExpr, heap))

ConcArg ==
    \E g \in Goroutines :
        gs[g].pc = "args" /\ ConcApply(g, SharedExpr, concArg(gs[g], SharedExpr, heap))

ConcStore ==
    \E g \in Goroutines :
        /\ gs[g].pc = "store"
        /\ \E w \in Words \ {gs[g].word} :
              ConcApply(g, SetSlot(SharedExpr, gs[g],
                                   StoreWord(Slots(SharedExpr, gs[g])[gs[g].i], gs[g].rv, w)),
                        concStored(gs[g], w))

ConcCall ==
    \E g \in Goroutines :
        gs[g].pc = "call" /\ ConcApply(g, SharedExpr, concCall(gs[g], SharedExpr, heap))

ConcFilter ==
    \E g \in Goroutines :
        /\ gs[g].pc = "filters"
        /\ gs[g].j <= Len(SharedExpr.filters)
        /\ ConcApply(g, SharedExpr, concFilter(gs[g], SharedExpr))

ConcReturn ==
    \E g \in Goroutines :
        /\ gs[g].pc = "filters"
        /\ gs[g].j > Len(SharedExpr.filters)
        /\ ConcApply(g, SharedExpr, concReturn(gs[g], SharedExpr, heap))

NextConc ==
    \/ ConcExecute
    \/ ConcRoot
    \/ ConcArg
    \/ ConcStore
    \/ ConcCall
    \/ ConcFilter
    \/ ConcReturn

SpecConc == InitConc /\ [][NextConc]_vars

\* Both renders have returned
ConcDone == \A g \in Goroutines : gs[g].pc = "done"

(***************************************************************************)
(* Specification SpecChain: the same step-wise evaluation of evalValue,    *)
(* for expressions with longer filter chains.  gs[g].j is the filter the   *)
(* loop over e.filters is at and gs[g].applied_filters is the chain        *)
(* context (FilterChainContext.applied_filters) of the evaluation.         *)
(***************************************************************************)
StepSources ==
    {<<"u", "|", "l", "o", "w", "e", "r", "|", "u", "n", "s", "a", "f", "e", "|", "u", "p", "p", "e", "r">>, <<"u", "|", "u", "n", "s", "a", "f", "e", "|", "s", "a", "f", "e", "|", "c", "a", "p", "i", "t", "a", "l", "i", "z", "e">>, <<"x", "|", "d", "e", "f", "a", "u", "l", "t", ":", "u", "|", "t", "r", "i", "m">>,
     <<"n", "a", "m", "e", "s", "|", "j", "o", "i", "n", ":", "w", "|", "l", "o", "w", "e", "r">>, <<"u", "|", "s", "a", "f", "e", "|", "u", "n", "s", "a", "f", "e">>, <<"\"", "<", "b", ">", "\"", "|", "u", "p", "p", "e", "r", "|", "u", "n", "s", "a", "f", "e", "|", "l", "o", "w", "e", "r">>,
     <<"o", "n", "e", "|", "l", "o", "w", "e", "r", "|", "u", "p", "p", "e", "r">>, <<"p", "e", "r", "s", "o", "n", ".", "S", "a", "y", "H", "e", "l", "l", "o", "T", "o", ":", "u", ",", "w", "|", "u", "p", "p", "e", "r", "|", "u", "n", "s", "a", "f", "e">>}

StepInputs ==
    {MkInput("step", <<>>, Var(src), ExprContexts, 1) : src \in StepSources}

InitChain ==
    /\ input \in StepInputs
    /\ Parsed(FromString(<<"g", "o", "t", "e", "s", "t">>, input.src))
    /\ gs = [g \in Goroutines |-> Idle]
    /\ heap = FixtureHeap
    /\ ctx = <<>>
    /\ ecs = <<>>
    /\ internal_contexts = <<>>
    /\ stack = <<>>
    /\ renders = 0
    /\ name = <<>>
    /\ resolved = <<>>
    /\ parser = <<>>
    /\ response = <<>>

SpecChain == InitChain /\ [][NextConc]_vars

(***************************************************************************)
(* Specification SpecParse: FromString on a source put together from       *)
(* pieces, one call of a state function of the tokenizer per step.         *)
(***************************************************************************)
MaxPieces == 3

\* kind: text (plain in the Content state), node (a complete node), tag and
\* filter (a complete node with a name absent from the registry), open (an
\* opener, or the single { that may become one)
Pieces ==
    <<[kind |-> "text", text |-> <<"a">>, name |-> <<>>],
      [kind |-> "text", text |-> <<"\n">>, name |-> <<>>],
      [kind |-> "text", text |-> <<"\t">>, name |-> <<>>],
      [kind |-> "text", text |-> <<"#">>, name |-> <<>>],
      [kind |-> "text", text |-> <<"}">>, name |-> <<>>],
      [kind |-> "text", text |-> <<"%">>, name |-> <<>>],
      [kind |-> "node", text |-> <<"{", "{", "x", "}", "}">>, name |-> <<>>],
      [kind |-> "node", text |-> <<"{", "%", "i", "f", " ", "f", "a", "l", "s", "e", "%", "}">>,
       name |-> <<>>],
      [kind |-> "tag", text |-> <<"{", "%", " ", "n", "o", " ", "x", "%", "}">>,
       name |-> <<"n", "o">>],
      [kind |-> "filter", text |-> <<"{", "{", "x", "|", "n", "o", "}", "}">>,
       name |-> <<"n", "o">>],
      [kind |-> "open", text |-> <<"{", "#">>, name |-> <<>>],
      [kind |-> "open", text |-> <<"{", "{">>, name |-> <<>>],
      [kind |-> "open", text |-> <<"{", "%">>, name |-> <<>>],
      [kind |-> "open", text |-> <<"{">>, name |-> <<>>]>>

RECURSIVE PiecesText(_)
PiecesText(shape) ==
    IF shape = <<>> THEN <<>> ELSE Pieces[Head(shape)].text \o PiecesText(Tail(shape))

ParseInputs ==
    {[family |-> "parse", shape |-> shape, src |-> PiecesText(shape)] :
        shape \in UNION {[1..n -> DOMAIN Pieces] : n \in 1..MaxPieces}}

\* The error Template.parse returns: the arguments of its message
\* "[Parsing error: name] [Line line, Column col] parseErr"
parseErrorf(tplname, t) ==
    [err |-> t.parseErr, arg |-> t.parseErrArg, name |-> tplname, line |-> t.line,
     col |-> t.col]

\* newTemplate(name, tplstr, locator) has returned the Template
InitParse ==
    /\ input \in ParseInputs
    /\ parser = [state |-> "parse", t |-> newTemplate]
    /\ response = <<>>
    /\ templates = <<>>
    /\ ret = <<>>
    /\ ecs = <<>>
    /\ internal_contexts = <<>>
    /\ stack = <<>>
    /\ renders = 0
    /\ ctx = <<>>
    /\ heap = <<>>
    /\ name = <<>>
    /\ resolved = <<>>
    /\ gs = <<>>

ParseApply(r) ==
    /\ parser' = r
    /\ UNCHANGED <<name, resolved, input, templates, ecs, internal_contexts, ctx, heap,
                   stack, ret, renders, gs, response>>

\* Template.parse up to its loop: the position of the first character
parseStart ==
    /\ parser.state = "parse"
    /\ ParseApply([state |-> "processContent", t |-> updatePosition(input.src, parser.t)])

\* state = state(tpl), for each of the four state functions
callProcessContent ==
    parser.state = "processContent" /\ ParseApply(processContent(input.src, parser.t))
callProcessComment ==
    parser.state = "processComment" /\ ParseApply(processComment(input.src, parser.t))
callProcessFilter ==
    parser.state = "processFilter" /\ ParseApply(processFilter(input.src, parser.t))
callProcessTag ==
    parser.state = "processTag" /\ ParseApply(processTag(input.src, parser.t))

\* The loop has ended: Template.parse returns the error, FromString the
\* Template or the error
parseReturn ==
    /\ parser.state = ""
    /\ parser' = [parser EXCEPT !.state = "returned"]
    /\ templates' = IF parser.t.parseErr = ""
                    THEN <<[name |-> <<"g", "o", "t", "e", "s", "t">>, nodes |-> parser.t.nodes]>>
                    ELSE <<>>
    /\ ret' = parseErrorf(<<"g", "o", "t", "e", "s", "t">>, parser.t)
    /\ UNCHANGED <<name, resolved, input, ecs, internal_contexts, ctx, heap, stack, renders,
                   gs, response>>

NextParse ==
    \/ parseStart
    \/ callProcessContent
    \/ callProcessComment
    \/ callProcessFilter
    \/ callProcessTag
    \/ parseReturn

SpecParse == InitParse /\ [][NextParse]_vars

(***************************************************************************)
(* Specification SpecComment: FromString on sources put together from      *)
(* plain text, complete comments and complete nodes.                       *)
(***************************************************************************)
MaxSegments == 3

\* kind: text (plain in the Content state), comment ({# up to the next #}),
\* filter and tag (a complete node, with the content of the node)
Segments ==
    <<[kind |-> "text", text |-> <<"a">>, content |-> <<"a">>],
      [kind |-> "text", text |-> <<"\n">>, content |-> <<"\n">>],
      [kind |-> "text", text |-> <<"}">>, content |-> <<"}">>],
      [kind |-> "text", text |-> <<"#">>, content |-> <<"#">>],
      [kind |-> "comment", text |-> <<"{", "#", "#", "}">>, content |-> <<>>],
      [kind |-> "comment", text |-> <<"{", "#", "a", "#", "}">>, content |-> <<>>],
      [kind |-> "comment", text |-> <<"{", "#", "\n", "#", "}">>, content |-> <<>>],
      [kind |-> "comment", text |-> <<"{", "#", "{", "{", "#", "}">>, content |-> <<>>],
      [kind |-> "comment", text |-> <<"{", "#", "%", "}", "#", "}">>, content |-> <<>>],
      [kind |-> "comment", text |-> <<"{", "#", " ", "{", "%", " ", "x", " ", "}", "}", "\n", " ", "#", "}">>, content |-> <<>>],
      [kind |-> "comment", text |-> <<"{", "#", "}", "#", "}">>, content |-> <<>>],
      [kind |-> "filter", text |-> <<"{", "{", "x", "}", "}">>, content |-> <<"x">>],
      [kind |-> "tag", text |-> <<"{", "%", "i", "f", " ", "f", "a", "l", "s", "e", "%", "}">>, content |-> <<"i", "f", " ", "f", "a", "l", "s", "e">>]>>

RECURSIVE SegmentsText(_)
SegmentsText(shape) ==
    IF shape = <<>> THEN <<>> ELSE Segments[Head(shape)].text \o SegmentsText(Tail(shape))

CommentInputs ==
    {[family |-> "comment", shape |-> shape, src |-> SegmentsText(shape)] :
        shape \in UNION {[1..n -> DOMAIN Segments] : n \in 1..MaxSegments}}

InitComment ==
    /\ input \in CommentInputs
    /\ parser = [state |-> "parse", t |-> newTemplate]
    /\ response = <<>>
    /\ templates = <<>>
    /\ ret = <<>>
    /\ ecs = <<>>
    /\ internal_contexts = <<>>
    /\ stack = <<>>
    /\ renders = 0
    /\ ctx = <<>>
    /\ heap = <<>>
    /\ name = <<>>
    /\ resolved = <<>>
    /\ gs = <<>>

SpecComment == InitComment /\ [][NextParse]_vars

\* FromString has returned
ParseReturned == parser.state = "returned"

(***************************************************************************)
(* Specification SpecLive: renders of templates that include or extend     *)
(* templates of the Locator, among them templates that include or extend   *)
(* themselves.  The call stack of the goroutine is limited: the Go runtime *)
(* ends the program with a fatal error when the stack exceeds its limit.   *)
(* The goroutine of the render always takes its next step (weak fairness). *)
(* Templates without such recursion stay below the limit.                  *)
(***************************************************************************)
MaxStack == 12

LiveSources ==
    OtherSources \cup
    {<<"{", "%", " ", "i", "n", "c", "l", "u", "d", "e", " ", "\"", "s", "e", "l", "f", "\"", " ", "%", "}">>,
     <<"{", "%", " ", "e", "x", "t", "e", "n", "d", "s", " ", "\"", "l", "o", "o", "p", "\"", " ", "%", "}">>,
     <<"{", "%", " ", "i", "n", "c", "l", "u", "d", "e", " ", "\"", "p", "i", "n", "g", "\"", " ", "%", "}">>,
     <<"{", "%", " ", "i", "f", " ", "t", "r", "u", "e", " ", "%", "}", "{", "%", " ", "i", "n", "c", "l", "u", "d", "e", " ", "\"", "s", "e", "l", "f", "\"", " ", "%", "}", "{", "%", " ", "e", "n", "d", "i", "f", " ", "%", "}">>,
     <<"{", "%", " ", "i", "f", " ", "f", "a", "l", "s", "e", " ", "%", "}", "{", "%", " ", "i", "n", "c", "l", "u", "d", "e", " ", "\"", "s", "e", "l", "f", "\"", " ", "%", "}", "{", "%", " ", "i", "f", " ", "x", " ", "%", "}", "{", "%", " ", "i", "n", "c", "l", "u", "d", "e", " ", "\"", "s", "e", "l", "f", "\"", " ", "%", "}", "{", "%", " ", "e", "n", "d", "i", "f", " ", "%", "}", "{", "%", " ", "f", "o", "r", " ", "2", " ", "%", "}", "{", "%", " ", "i", "n", "c", "l", "u", "d", "e", " ", "\"", "s", "e", "l", "f", "\"", " ", "%", "}", "{", "%", " ", "e", "n", "d", "f", "o", "r", " ", "%", "}", "{", "%", " ", "e", "n", "d", "i", "f", " ", "%", "}", "z">>,
     <<"{", "%", " ", "f", "o", "r", " ", "2", " ", "%", "}", "{", "%", " ", "i", "n", "c", "l", "u", "d", "e", " ", "\"", "g", "r", "e", "e", "t", "i", "n", "g", "s", "\"", " ", "%", "}", "{", "%", " ", "e", "n", "d", "f", "o", "r", " ", "%", "}">>}

Recursive(src) ==
    \E i \in 1..Len(src), n \in {sSelf, sLoop, sPing} :
        i + Len(n) - 1 <= Len(src) /\ SubSeq(src, i, i + Len(n) - 1) = n

LiveInputs ==
    {[family |-> "live", shape |-> <<>>, src |-> src, files |-> LiveFiles,
      contexts |-> {FixtureContext(TRUE)}, renders |-> MaxRenders] : src \in LiveSources}

InitLive ==
    /\ input \in LiveInputs
    /\ Parsed(FromString(<<"g", "o", "t", "e", "s", "t">>, input.src))
    /\ ecs = <<>>
    /\ internal_contexts = <<>>
    /\ stack = <<>>
    /\ renders = 0
    /\ ctx = <<>>
    /\ heap = FixtureHeap
    /\ name = <<>>
    /\ resolved = <<>>
    /\ gs = <<>>
    /\ parser = <<>>
    /\ response = <<>>

\* The stack has reached the limit: the runtime prints "fatal error: stack
\* overflow" and the program ends; Execute does not return
StackOverflow == "fatal error: stack overflow"

stackExceeded ==
    /\ Len(stack) >= MaxStack
    /\ ret.err # StackOverflow
    /\ ret' = RetErr(StackOverflow)
    /\ UNCHANGED <<name, resolved, input, templates, ecs, internal_contexts, ctx, heap,
                   stack, renders, gs, parser, response>>

NextLive ==
    \/ Len(stack) < MaxStack /\ NextRender
    \/ stackExceeded

\* ENABLED <<NextLive>>_vars as a state predicate: below the limit a running
\* render has a next step and a returned one may be followed by the next
\* Execute; at the limit the runtime's fatal error is the only step
LiveEnabled ==
    \/ /\ Len(stack) < MaxStack
       /\ stack # <<>> \/ (templates # <<>> /\ renders < input.renders)
    \/ /\ Len(stack) >= MaxStack
       /\ ret.err # StackOverflow

\* Weak fairness of NextLive, with its enabling condition written out: the
\* goroutine of the render is never suspended for ever
LiveFairness == ([]<>(~LiveEnabled) \/ []<><<NextLive>>_vars) /\ WF_vars(stackExceeded)

SpecLive == InitLive /\ [][NextLive]_vars /\ LiveFairness

(***************************************************************************)
(* Specification SpecRW: Template.ExecuteRW renders parsed templates into  *)
(* one response writer, each call with one of the Contexts of the input.   *)
(* The sources are those of the families other, unterminated and truth     *)
(* and a template whose render fails with one Context and not with the     *)
(* other.                                                                  *)
(***************************************************************************)
sV == <<"v">>
RWSources == {<<"a", "{", "{", " ", "v", "|", "l", "o", "w", "e", "r", " ", "}", "}", "b">>, <<"{", "%", " ", "i", "f", " ", "v", " ", "%", "}", "a", "{", "%", " ", "e", "n", "d", "i", "f", " ", "%", "}", "{", "{", " ", "v", "|", "u", "n", "s", "a", "f", "e", " ", "}", "}">>, <<"{", "%", " ", "i", "f", " ", "t", "r", "u", "e", " ", "%", "}", "{", "%", " ", "i", "f", " ", "v", " ", "%", "}", "a", "{", "%", " ", "e", "n", "d", "i", "f", " ", "%", "}", "{", "%", " ", "f", "o", "r", " ", "v", " ", "%", "}", "b", "{", "%", " ", "e", "n", "d", "f", "o", "r", " ", "%", "}", "{", "%", " ", "e", "l", "s", "e", " ", "%", "}", "{", "%", " ", "i", "f", " ", "v", " ", "%", "}", "{", "%", " ", "e", "n", "d", "i", "f", " ", "%", "}", "{", "%", " ", "f", "o", "r", " ", "v", " ", "%", "}", "{", "%", " ", "e", "n", "d", "f", "o", "r", " ", "%", "}", "{", "%", " ", "e", "n", "d", "i", "f", " ", "%", "}">>}
RWContexts ==
    {FixtureContext(TRUE) @@ (sV :> value) :
        value \in {VString(<<"o", "k">>), VString(<<>>), VInt(2), VSlice(<<VString(<<"a">>)>>)}}

RWInputs ==
    {MkInput("rw", <<>>, src, RWContexts, MaxRenders) : src \in RWSources}
    \cup {[i EXCEPT !.renders = MaxRenders] :
            i \in OtherInputs \cup UnterminatedInputs \cup TruthInputs}

InitRW ==
    /\ input \in RWInputs
    /\ Parsed(FromString(<<"g", "o", "t", "e", "s", "t">>, input.src))
    /\ ecs = <<>>
    /\ internal_contexts = <<>>
    /\ stack = <<>>
    /\ renders = 0
    /\ ctx = <<>>
    /\ heap = FixtureHeap
    /\ name = <<>>
    /\ resolved = <<>>
    /\ gs = <<>>
    /\ parser = <<>>
    /\ response = <<>>

executeRWFrame == [fn |-> "ExecuteRW", pc |-> "Execute"]

\* Template.ExecuteRW(w, ctx) up to the call of tpl.Execute(ctx), which makes
\* a new execution context for the parsed template
ExecuteRW ==
    /\ stack = <<>>
    /\ templates # <<>>
    /\ renders < input.renders
    /\ \E c \in input.contexts : ctx' = c
    /\ heap' = FixtureHeap
    /\ templates' = <<templates[1]>>
    /\ internal_contexts' = <<<<>>>>
    /\ ecs' = <<[template |-> 1, node_pos |-> 0, internal_context |-> 1]>>
    /\ stack' = <<executeRWFrame, executeFrame(1)>>
    /\ ret' = RetOut(<<>>)
    /\ renders' = renders + 1
    /\ UNCHANGED <<input, name, resolved, gs, parser, response>>

\* ExecuteRW after tpl.Execute returned (out, err) as r: the error is
\* returned, or the output is written to w and nil is returned
writeOutput_BeforeErrorTest(w, r) == [err |-> r.err, w |-> Append(w, r.out)]

writeOutput(w, r) ==
    IF r.err # "" THEN [err |-> r.err, w |-> w]
    ELSE [err |-> "", w |-> Append(w, r.out)]

ExecuteRWReturn(r) ==
    /\ response' = r.w
    /\ ret' = RetErr(r.err)
    /\ stack' = SubSeq(stack, 1, Len(stack) - 1)
    /\ UNCHANGED <<name, resolved, input, templates, ecs, internal_contexts, ctx, heap,
                   renders, gs, parser>>

ExecuteRWReturned == Running("ExecuteRW") /\ ExecuteRWReturn(writeOutput(response, ret))

NextRW ==
    \/ ExecuteRW
    \/ ExecuteRWReturned
    \/ execute
    \/ executeUntilAnyTagNode
    \/ ignoreUntilAnyTagNode
    \/ tagIf
    \/ tagIfIgnore
    \/ tagFor
    \/ tagForIgnore
    \/ tagBlock
    \/ tagTrim
    \/ tagTrimIgnore
    \/ tagRemove
    \/ tagRemoveIgnore
    \/ tagExtends
    \/ tagInclude

SpecRW == InitRW /\ [][NextRW]_vars

(***************************************************************************)
(* Specification SpecSplit: splitArgs applied to every string of up to     *)
(* MaxArgLen characters (a letter, the separator, the quote, the           *)
(* backslash) and to strings like those of ExampleParseArgs                *)
(***************************************************************************)
MaxArgLen == 6
ArgChars == {"a", ",", "\"", "\\"}
SplitExamples ==
    {<<"\"", "a", ",", " ", "b", "\"", ",", "1", ",", "\"", "c", "\\", "\"", "d", "\"">>, <<"1", "5", "0", "2", "9", "5", "8", "2">>, <<"\"", "h", "e", "l", "l", "o", ",", " ", "f", "l", "o", "r", "i", "a", "n", "!", "\"">>,
     <<"f", "o", "o", ",", ",", "\"", "i", "s", " ", "\\", "\"", "n", "i", "c", "e", "\\", "\"", ",", " ", "i", "s", "n", "'", "t", "\"", ",", "1">>}
SplitInputs ==
    {[family |-> "split", src |-> src] :
        src \in UNION {[1..n -> ArgChars] : n \in 0..MaxArgLen} \cup SplitExamples}

InitSplit ==
    /\ input \in SplitInputs
    /\ ret = <<>>
    /\ parser = <<>>
    /\ response = <<>>
    /\ templates = <<>>
    /\ ecs = <<>>
    /\ internal_contexts = <<>>
    /\ stack = <<>>
    /\ renders = 0
    /\ ctx = <<>>
    /\ heap = <<>>
    /\ name = <<>>
    /\ resolved = <<>>
    /\ gs = <<>>

\* r := splitArgs(&in, ",")
SplitArgs ==
    /\ ret = <<>>
    /\ ret' = [res |-> splitArgs(input.src, ",")]
    /\ UNCHANGED <<name, resolved, input, templates, ecs, internal_contexts, ctx, heap,
                   stack, renders, gs, parser, response>>

NextSplit == SplitArgs

SpecSplit == InitSplit /\ [][NextSplit]_vars

SplitReturned == ret # <<>>

(***************************************************************************)
(* Reference results of the input families                                 *)
(***************************************************************************)
\* The expression of a template that is one filter node, parsed anew
FreshExpr == FromString(<<"g", "o", "t", "e", "s", "t">>, input.src).tpl.nodes[1].e

\* What a freshly parsed copy of such a template renders for the Context
FreshResult(r) == [err |-> r.err, out |-> r.out]
FreshRender == FreshResult(evalString(FreshExpr, ctx, heap))

\* The string a chain input evaluates before its filters
ChainString ==
    IF input.shape.root = sU THEN ctx[sU].v ELSE <<"<", "b", ">", "&">>

\* unsafe is written in the chain before any safe
UnsafeFirst(chain) ==
    \E i \in DOMAIN chain :
        chain[i] = sUnsafe /\ \A j \in 1..(i - 1) : chain[j] # sSafe

\* The for tags whose loop is running, outermost first
IsActiveLoop(f) == f.fn = "tagFor" /\ f.pc \in {"body_ret", "skip_ret"}
ActiveLoops == SelectSeq(stack, IsActiveLoop)

\* The loop record of a running for tag
LoopRecord(f) == heap[f.forCtx].v.fields

RECURSIVE Repeat(_, _)
Repeat(s, n) == IF n = 0 THEN <<>> ELSE s \o Repeat(s, n - 1)

\* The branch an if or for item of a body shows
ItemOut(it) ==
    CASE it.t = "text" -> it.s
      [] it.t = "if" ->
            IF it.cond.truth THEN it.then ELSE IF it.hasElse THEN it.else ELSE <<>>
      [] it.t = "for" ->
            IF it.n > 0 THEN Repeat(it.then, it.n) ELSE IF it.hasElse THEN it.else ELSE <<>>

RECURSIVE BodyOut(_)
BodyOut(body) == IF body = <<>> THEN <<>> ELSE ItemOut(Head(body)) \o BodyOut(Tail(body))

\* Exactly one branch of the if tree
TreeOut(tree) ==
    IF tree.cond.truth THEN BodyOut(tree.then)
    ELSE IF tree.hasElse THEN BodyOut(tree.else) ELSE <<>>

\* The content of a block of base2 as the base (base2 or mid) shows it
BaseBlock(base, blockname) ==
    IF blockname = sA THEN (IF base = sMid THEN <<"M">> ELSE <<"1">>) ELSE <<"2">>

ExpectedBlock(shape, blockname, text) ==
    IF blockname \in shape.defines THEN text ELSE BaseBlock(shape.base, blockname)

\* The base's output with the blocks the child defines replaced
ExpectedExtends(shape) ==
    <<"A">> \o ExpectedBlock(shape, sA, <<"X">>) \o <<"B">>
    \o ExpectedBlock(shape, sB, <<"Y">>) \o <<"C">>

\* The results of two renders one after the other: the second evaluates the
\* expression as the first leaves it
SeqSecond(first, c2, hp) == <<FreshResult(first), FreshResult(evalString(first.e, c2, hp))>>
SeqOutcome(e, c1, c2, hp) == SeqSecond(evalString(e, c1, hp), c2, hp)

\* The results (of goroutine 1, of goroutine 2) when 1 runs before 2 (ab), when
\* 2 runs before 1 (ba), and when each evaluates a copy of its own
SerialResults(ab, ba) == {<<ab[1], ab[2]>>, <<ba[2], ba[1]>>, <<ab[1], ba[1]>>}

ConcSerial(e) ==
    <<gs[1].res, gs[2].res>>
        \in SerialResults(SeqOutcome(e, gs[1].ctx, gs[2].ctx, heap),
                          SeqOutcome(e, gs[2].ctx, gs[1].ctx, heap))

(***************************************************************************)
(* Properties                                                              *)
(***************************************************************************)

\* C1: evaluating an expression never writes into the parsed expression:
\* after any sequence of renders of one parsed template with different
\* Contexts, each render returns what a freshly parsed copy of the template
\* returns for that Context.
C1_RenderEqualsFreshCopy ==
    (Rendered /\ input.family \in {"chain", "args"})
        => [err |-> ret.err, out |-> ret.out] = FreshRender

\* C2: two renders of the same parsed template that run concurrently, each
\* with its own Context, return what they return when they run one after the
\* other (in either order; the results of two separate copies are accepted
\* too): no interleaving lets a render use or overwrite an argument value the
\* other has resolved.
C2_ConcurrentAsSequential == ConcDone => ConcSerial(FreshExpr)

\* C3: after a render in which every loop has finished, the Context holds
\* none of forloop, forloops, forcounter and forcounter1.
C3_NoLoopBindingsLeft ==
    (Rendered /\ input.family = "loop" /\ ret.err = "")
        => {sForloop, sForloops, sForcounter, sForcounter1} \cap DOMAIN ctx = {}

\* C4: while the body of a loop executes inside k >= 2 running loops, forloops
\* holds exactly the k loop records of the running loops, outermost first.
C4_ForloopsAreTheRunningLoops ==
    (Len(ActiveLoops) >= 2 /\ ActiveLoops[Len(ActiveLoops)].pc = "body_ret")
        => /\ sForloops \in DOMAIN ctx
           /\ ctx[sForloops] = VSlice([j \in 1..Len(ActiveLoops) |-> VPtr(ActiveLoops[j].forCtx)])

\* C5: during iteration i (from 0) of a loop of n rounds the loop record has
\* Counter = i, Counter1 = i + 1, Max = n - 1, Max1 = n, First = (i = 0) and
\* Last = (i = n - 1), and the Context binds forcounter to i and forcounter1
\* to i + 1 for the innermost running loop.
C5_LoopRecordAndCounters ==
    \A j \in 1..Len(ActiveLoops) :
        /\ LoopRecord(ActiveLoops[j]) =
              (sCounter :> VInt(ActiveLoops[j].i)) @@ (sCounter1 :> VInt(ActiveLoops[j].i + 1))
              @@ (sMax :> VInt(ActiveLoops[j].n - 1)) @@ (sMax1 :> VInt(ActiveLoops[j].n))
              @@ (sFirst :> VBool(ActiveLoops[j].i = 0))
              @@ (sLast :> VBool(ActiveLoops[j].i = ActiveLoops[j].n - 1))
        /\ j = Len(ActiveLoops)
              => /\ sForcounter \in DOMAIN ctx
                 /\ sForcounter1 \in DOMAIN ctx
                 /\ ctx[sForcounter] = VInt(ActiveLoops[j].i)
                 /\ ctx[sForcounter1] = VInt(ActiveLoops[j].i + 1)

\* C6: an if tag renders exactly one of its branches: the then branch when the
\* condition is boolean true or a non-boolean value different from the zero
\* value of its type, the else branch (or nothing) otherwise.
C6_IfRendersOneBranch ==
    (Rendered /\ input.family = "if")
        => (ret.err = "" /\ ret.out = TreeOut(input.shape))

\* C7: with auto-escape a string value is escaped exactly once however many
\* safe filters the expression has, and is not escaped when unsafe is written
\* before any safe.
C7_EscapedOnce ==
    (Rendered /\ input.family = "chain")
        => /\ ret.err = ""
           /\ ret.out = IF UnsafeFirst(input.shape.chain) THEN ChainString
                        ELSE htmlEscape(ChainString)

\* C7 is exercised: a Context string with a character to escape went through
\* two safe filters and the automatic one, and escaping it twice would show
C7_Witness ==
    /\ Rendered
    /\ input.family = "chain"
    /\ input.shape = [root |-> sU, chain |-> <<sSafe, sSafe>>]
    /\ renders = 2
    /\ ret.out = htmlEscape(ctx[sU].v)
    /\ htmlEscape(ctx[sU].v) # ctx[sU].v
    /\ htmlEscape(htmlEscape(ctx[sU].v)) # htmlEscape(ctx[sU].v)

\* C8: a template that begins with extends renders as its base with every
\* block the child defines replaced by the child's content, the other blocks
\* showing the base's content, and nothing of the child outside its blocks.
C8_ExtendsReplacesBlocks ==
    (Rendered /\ input.family = "extends")
        => (ret.err = "" /\ ret.out = ExpectedExtends(input.shape))

\* C9: resolving a dotted identifier whose first segment is absent from the
\* Context yields the empty string and no error, whatever segments follow.
C9_AbsentFirstSegment ==
    (resolved # <<>> /\ Split(name, ".")[1] \notin DOMAIN ctx)
        => (resolved[1].err = "" /\ resolved[1].val = EmptyString)

\* C9 is exercised: an absent first segment followed by two specifiers, one of
\* them empty (which is an error when it is reached)
C9_Witness ==
    /\ resolved # <<>>
    /\ name = Join(<<sFoo, <<>>, sName>>, <<".">>)
    /\ resolved[1].val = EmptyString

\* C10: a specifier of the wrong type for the current value (the case in which
\* the code prints its "specifier must be ..." warning) makes the whole path
\* resolve to the empty string.
C10_WrongSpecifierType ==
    (resolved # <<>> /\ resolved[1].warned)
        => (resolved[1].err = "" /\ resolved[1].val = EmptyString)


\* C11: parsing and then rendering a non-empty source without any of the
\* openers {{ {% {# succeeds and returns the source text unchanged, also when
\* the source contains single { characters (also as its last character).
C11_TextRoundTrip ==
    input.family = "content" =>
        /\ templates # <<>>
        /\ Rendered => ret = RetOut(input.src)

\* C12: a structural tag (if, for, block, trim, remove) whose terminator is
\* missing from the rest of the node list always aborts the render with the
\* error that names the expected terminators; no such render returns output,
\* also when the scan starts after an else inside a running for loop.
C12_MissingTerminatorAborts ==
    (input.family = "unterminated" /\ Rendered) => ret.err = "No end-node"

\* The next step is tagNode.execute of a tag without handler: the cursor of
\* execute, or of executeUntilAnyTagNode when the tag is none of the
\* terminators it scans for, is at such a node
CursorAtPlaceholder(f) ==
    /\ f.fn \in {"execute", "executeUntilAnyTagNode"}
    /\ f.pc = "loop"
    /\ NodePos(Machine, f) < Len(Nodes(Machine, f))
    /\ CurrentNode(Machine, f).type = "tag"
    /\ ~TagHasHandler(CurrentNode(Machine, f).tagname)
    /\ f.fn = "executeUntilAnyTagNode" => CurrentNode(Machine, f).tagname \notin f.nodenames

ExecutesPlaceholder == stack # <<>> /\ CursorAtPlaceholder(stack[Len(stack)])

\* C13: once a terminator-only tag (else, endif, endfor, endblock, endtrim,
\* endremove) is executed because no scan of an open structural tag consumed
\* it, the render returns the "Unhandled placeholder" error.
C13_PlaceholderAborts ==
    \A n \in 1..MaxRenders :
        [](ExecutesPlaceholder /\ renders = n
            => []((Rendered /\ renders = n) => ret.err = "Unhandled placeholder"))

\* A render of overlapping structural tags has returned that error
C13_Witness ==
    /\ input.family = "overlap"
    /\ Rendered
    /\ ret.err = "Unhandled placeholder"

\* The first piece of the source that is not text or a complete node with
\* registered names (0 when there is none): the tokenizer reaches it in the
\* Content state
FirstOther(shape) ==
    IF \A i \in 1..Len(shape) : Pieces[shape[i]].kind \in {"text", "node"} THEN 0
    ELSE CHOOSE i \in 1..Len(shape) :
            /\ Pieces[shape[i]].kind \notin {"text", "node"}
            /\ \A j \in 1..(i - 1) : Pieces[shape[j]].kind \in {"text", "node"}

\* The source has a node with a tag or filter name absent from the registry,
\* after text and complete nodes only
UnknownName(shape) ==
    FirstOther(shape) # 0 /\ Pieces[shape[FirstOther(shape)]].kind \in {"tag", "filter"}

UnknownNameError(piece) ==
    [err |-> IF piece.kind = "tag" THEN "Tag does not exist" ELSE "Filter not found",
     arg |-> piece.name]

Closer(state) ==
    CASE state = "processComment" -> <<"#", "}">>
      [] state = "processFilter" -> <<"}", "}">>
      [] state = "processTag" -> <<"%", "}">>

FileEndError(state) ==
    CASE state = "processComment" -> "File end reached within comment"
      [] state = "processFilter" -> "File end reached within filter"
      [] state = "processTag" -> "File end reached within tag"

\* The tokenizer is in the Comment, Expression or Tag state and the rest of
\* the source does not hold the closer: the source ends in that state
EndsInNode ==
    /\ parser.state \in {"processComment", "processFilter", "processTag"}
    /\ \A p \in (parser.t.pos + 1)..(Len(input.src) - 1) :
            SubSeq(input.src, p, p + 1) # Closer(parser.state)

\* C15: when the source ends while the tokenizer is in the Comment,
\* Expression or Tag state, every call of the state function moves on by one
\* character or stops with the file-end error of the state, and the parse
\* that stopped with an error returns it with the tracked line and column
\* and returns no Template.
C15_EndInsideNodeFails ==
    [][/\ EndsInNode =>
            \/ parser'.state = parser.state /\ parser'.t.pos = parser.t.pos + 1
                                            /\ parser'.t.parseErr = ""
            \/ parser'.state = "" /\ parser'.t.parseErr = FileEndError(parser.state)
       /\ (parser.state = "" /\ parser.t.parseErr # "") =>
            /\ templates' = <<>>
            /\ ret'.err = parser.t.parseErr
            /\ ret'.line = parser.t.line
            /\ ret'.col = parser.t.col]_vars

\* FromString has returned the file-end error of a tag on the second line
C15_Witness ==
    /\ ParseReturned
    /\ ret.err = "File end reached within tag"
    /\ ret.line = 2
    /\ templates = <<>>

\* The last position the tokenizer has counted: the current one, or the last
\* character when it is past the end of the text (0-based)
Counted(raw, pos) == IF pos >= Len(raw) THEN Len(raw) - 1 ELSE pos

\* The newline characters up to and including position p, and the characters
\* after the last of them up to and including p
NewlinesUpTo(raw, p) == {q \in 0..p : raw[q + 1] = "\n"}
LineOf(raw, p) == 1 + Cardinality(NewlinesUpTo(raw, p))
ColumnOf(raw, p) == Cardinality({q \in 0..p : \A n \in NewlinesUpTo(raw, p) : q > n})

\* C16: at every step of tokenizing the tracked line is 1 plus the number of
\* newline characters up to and including the current position and the
\* column is the number of characters consumed since the last newline (a
\* tab counting as one); a parse error reports these values for the
\* position where it was detected.
C16_LineAndColumn ==
    parser.state # "parse" =>
        /\ parser.t.line = LineOf(input.src, Counted(input.src, parser.t.pos))
        /\ parser.t.col = ColumnOf(input.src, Counted(input.src, parser.t.pos))
        /\ (ParseReturned /\ ret.err # "") =>
                /\ ret.line = LineOf(input.src, Counted(input.src, parser.t.pos))
                /\ ret.col = ColumnOf(input.src, Counted(input.src, parser.t.pos))

\* A parse error reported on the second line after a tab and one more
\* character
C16_Witness ==
    /\ ParseReturned
    /\ ret.err # ""
    /\ ret.line = 2
    /\ ret.col = 2
    /\ \E i \in 1..Len(input.src) : input.src[i] = "\t"

\* C17: every render invocation eventually returns an output string or an
\* error, for every template and Context, also for templates that use
\* include or extends, whatever templates the Locator returns.
C17_RenderReturns == [](stack # <<>> => <>Rendered)

\* C18: negating an expression whose final value is a boolean yields its
\* logical complement, and negating a non-boolean final value yields true
\* exactly when the value is not equal to the zero value of its type.
NegationOf(op) == IF op.bool THEN op.zero ELSE ~op.zero
C18_Negation ==
    (input.family = "negate" /\ Rendered)
        => ret = RetOut(IF NegationOf(input.shape) THEN <<"t", "r", "u", "e">>
                        ELSE <<"f", "a", "l", "s", "e">>)

\* C19: the truthiness test of the if tag is defined for a condition value of
\* every kind, an empty or non-empty slice or map included, and never aborts
\* the render: the then branch is rendered exactly when the value is not the
\* zero value of its kind.
C19_IfTruthDefined ==
    (input.family = "truth" /\ Rendered)
        => ret = RetOut(IF input.shape.truth THEN <<"a">> ELSE <<"b">>)

\* C20: ExecuteRW writes nothing to the response writer when rendering fails
\* and returns the error; when rendering succeeds it writes the complete
\* output exactly once and returns no error.  Nothing else writes to the
\* response writer.
C20_ExecuteRW ==
    [][/\ (Running("ExecuteRW") /\ ret.err # "")
            => (response' = response /\ stack' = <<>> /\ ret'.err = ret.err)
       /\ (Running("ExecuteRW") /\ ret.err = "")
            => (response' = Append(response, ret.out) /\ stack' = <<>> /\ ret'.err = "")
       /\ ~Running("ExecuteRW") => response' = response]_vars

\* C20 is exercised: of two ExecuteRW calls on one response writer one
\* failed and one rendered a non-empty output, which is all the writer holds
C20_Witness ==
    /\ input.family = "rw"
    /\ stack = <<>>
    /\ renders = 2
    /\ ret.err # ""
    /\ response = <<<<"a", "o", "k", "b">>>>

\* C21: a static include or extends whose name is an identifier fails with
\* the error that asks for a proper template filename, also when the Context
\* of the render binds the identifier to the name of an existing template.
C21_StaticNameNotFromContext ==
    (input.family = "static" /\ input.shape.static /\ input.shape.name.ident /\ Rendered)
        => ret.err = "Please provide a propper template filename"

\* C22: in an if condition the characters of an operator that occur inside a
\* quoted string literal belong to the literal: the condition is the
\* comparison of the operands, so "Flo==ri&&an"|lower == "flo==ri&&an" is
\* true.
C22_OperatorInsideLiteral ==
    (input.family = "quoted" /\ Rendered)
        => ret = RetOut(IF input.shape.truth THEN <<"a">> ELSE <<"b">>)

\* C23: a path whose last segment names a method is invoked exactly when the
\* number of arguments written after the colon equals the number of
\* parameters of the method (a method without parameters is invoked without
\* an argument list); when the numbers differ the expression is the empty
\* string.
MethodResult(shape) ==
    IF Len(shape.args) # PersonMethods[shape.method] THEN <<>>
    ELSE IF shape.method = sSayHello THEN sHelloFlo
    ELSE <<"H", "e", "l", "l", "o", " ", "t", "o", " ">> \o shape.args[1].val
         \o <<" ", "a", "n", "d", " ">> \o shape.args[2].val
         \o <<" ", "f", "r", "o", "m", " ", "F", "l", "o", "!">>

C23_MethodArity ==
    (input.family = "call" /\ Rendered) => ret = RetOut(MethodResult(input.shape))

\* C23 is exercised: a method of two parameters was called with two
\* arguments, one of them resolved from the Context
C23_Witness ==
    /\ input.family = "call"
    /\ Rendered
    /\ input.shape.method = sSayHelloTo
    /\ Len(input.shape.args) = 2
    /\ input.shape.args[2].text = sNameVar
    /\ ret.out = MethodResult(input.shape)
    /\ ret.out # <<>>

\* C24: an included template is rendered with the Context of the caller (it
\* sees the caller's variables and the loop bindings active at the include
\* tag), with no block of the caller and with a cursor of its own: while the
\* included template runs and when include returns, the cursor of the caller
\* points at the include tag, and the caller goes on with the next node.
IncludeCalls == {i \in 1..Len(stack) : stack[i].fn = "tagInclude" /\ stack[i].pc = "base_ret"}
CallerNode(i) == templates[ecs[stack[i].ec].template].nodes[ecs[stack[i].ec].node_pos + 1]

C24_IncludeOwnCursor ==
    /\ (input.family = "include" /\ Rendered) => ret = RetOut(input.shape.out)
    /\ \A i \in IncludeCalls :
            /\ ecs[stack[i].ec].node_pos < Len(templates[ecs[stack[i].ec].template].nodes)
            /\ CallerNode(i).tagname = sInclude
            /\ i < Len(stack) =>
                    /\ stack[i + 1].fn = "execute"
                    /\ stack[i + 1].ec # stack[i].ec
                    /\ ecs[stack[i + 1].ec].internal_context # ecs[stack[i].ec].internal_context
                    /\ internal_contexts[ecs[stack[i + 1].ec].internal_context] = <<>>

\* C24 is exercised: a child that overrides block a extends a base that
\* includes a template with a block a of its own, which shows its own text
C24_Witness ==
    /\ input.family = "include"
    /\ Rendered
    /\ input.shape.out = <<"X", "d">>
    /\ ret.out = <<"X", "d">>

\* C25: splitArgs never splits at a separator inside a double-quoted
\* substring, a quote preceded by a backslash neither opens nor closes a
\* quoted substring, and an empty field between two separators is kept as an
\* empty string.  Fields(in, ...) are the fields this gives: the text between
\* the separators that are outside the quoted substrings (the text after the
\* last separator is a field when it is not empty).  For every string whose
\* quoted substrings are closed, splitArgs gives as many fields, and an empty
\* one where the field is empty.
RECURSIVE Fields(_, _, _, _, _)
Fields(in, i, in_string, field, res) ==
    IF i > Len(in) THEN (IF field # <<>> THEN Append(res, field) ELSE res)
    ELSE IF in[i] = "\"" /\ ~(i > 1 /\ in[i - 1] = "\\")
    THEN Fields(in, i + 1, ~in_string, Append(field, in[i]), res)
    ELSE IF in[i] = "," /\ ~in_string
    THEN Fields(in, i + 1, in_string, <<>>, Append(res, field))
    ELSE Fields(in, i + 1, in_string, Append(field, in[i]), res)

Quotes(in) == {i \in 1..Len(in) : in[i] = "\"" /\ ~(i > 1 /\ in[i - 1] = "\\")}
QuotesClosed(in) == Cardinality(Quotes(in)) % 2 = 0

SameFields(res, fields) ==
    /\ Len(res) = Len(fields)
    /\ \A i \in 1..Len(res) : (res[i] = <<>>) <=> (fields[i] = <<>>)

C25_SplitArgsQuoted ==
    (input.family = "split" /\ SplitReturned /\ QuotesClosed(input.src))
        => SameFields(ret.res, Fields(input.src, 1, FALSE, <<>>, <<>>))

\* C26: a tag body is split into the tag name and the arguments at the first
\* run of whitespace of any kind (space, tab, newline): if, whitespace, true
\* parses as the tag if with the argument true, and renders as such.
C26_TagBodyWhitespace ==
    input.family = "tagbody"
        => /\ templates # <<>>
           /\ templates[1].nodes[1].tagname = sIf
           /\ templates[1].nodes[1].tagargs = <<"t", "r", "u", "e">>
           /\ Rendered => ret = RetOut(<<"a">>)

\* C27: at every point of a loop body forloop, forcounter and forcounter1
\* refer to the innermost for loop whose body is executing, also in the part
\* of the body of an outer loop that follows a nested loop which has finished
\* in the same iteration.
InnermostLoop == ActiveLoops[Len(ActiveLoops)]

C27_InnermostLoopBindings ==
    ActiveLoops # <<>>
        => /\ {sForloop, sForcounter, sForcounter1} \subseteq DOMAIN ctx
           /\ ctx[sForloop] = VPtr(InnermostLoop.forCtx)
           /\ ctx[sForcounter] = VInt(InnermostLoop.i)
           /\ ctx[sForcounter1] = VInt(InnermostLoop.i + 1)

\* C28: when the Execute hook of a structural tag (if, for, block, trim,
\* remove) returns successfully, the cursor is at the closing terminator of
\* that very tag (OwnTerminator: the end tag that closes the tag at tag_pos,
\* the tags of its kind opened in between being closed in between); and
\* during a render the cursor is never negative and every tag whose hook runs
\* was read at a cursor below the node count.
StructuralHooks == {"tagIf", "tagFor", "tagBlock", "tagTrim", "tagRemove"}
EndTagOf(tagname) ==
    CASE tagname = sIf -> sEndif
      [] tagname = sFor -> sEndfor
      [] tagname = sBlock -> sEndblock
      [] tagname = sTrim -> sEndtrim
      [] tagname = sRemove -> sEndremove

\* The cursor of the end tag that closes a tag named tagname, scanning from
\* cursor i with depth more tags of that name open; -1 when there is none
RECURSIVE MatchFrom(_, _, _, _)
MatchFrom(nodes, i, tagname, depth) ==
    IF i >= Len(nodes) THEN -1
    ELSE LET node == nodes[i + 1] IN
         IF node.type = "tag" /\ node.tagname = tagname
         THEN MatchFrom(nodes, i + 1, tagname, depth + 1)
         ELSE IF node.type = "tag" /\ node.tagname = EndTagOf(tagname)
         THEN IF depth = 0 THEN i ELSE MatchFrom(nodes, i + 1, tagname, depth - 1)
         ELSE MatchFrom(nodes, i + 1, tagname, depth)

OwnTerminator(nodes, tag_pos) ==
    MatchFrom(nodes, tag_pos + 1, nodes[tag_pos + 1].tagname, 0)

HookReturns ==
    /\ stack # <<>>
    /\ stack[Len(stack)].fn \in StructuralHooks
    /\ stack' = SubSeq(stack, 1, Len(stack) - 1)
    /\ ret'.err = ""

CursorInRange ==
    /\ \A e \in 1..Len(ecs) : ecs[e].node_pos >= 0
    /\ \A k \in 1..Len(stack) :
          "tag_pos" \in DOMAIN stack[k]
              => stack[k].tag_pos < Len(templates[ecs[stack[k].ec].template].nodes)

C28_CursorAtOwnTerminator ==
    /\ []CursorInRange
    /\ [][HookReturns
            => LET f == stack[Len(stack)] IN
               ecs'[f.ec].node_pos
                   = OwnTerminator(templates[ecs[f.ec].template].nodes, f.tag_pos)]_vars

\* C29: when a branch or a body is skipped, the scan stops at the terminator
\* that belongs to the tag that started it: at the node where a scan of
\* ignoreUntilAnyTagNode returns successfully to the hook of the tag at
\* tag_pos, no structural tag (if, for, trim, remove, block) opened after
\* tag_pos is still open, so the else or end tag found is not one of a tag
\* nested in the skipped region.
StructuralTags == {sIf, sFor, sBlock, sTrim, sRemove}
EndTags == {sEndif, sEndfor, sEndblock, sEndtrim, sEndremove}

\* The number of structural tags opened at the cursors i..(q - 1) and not
\* closed before q
RECURSIVE OpenBetween(_, _, _, _)
OpenBetween(nodes, i, q, depth) ==
    IF i >= q THEN depth
    ELSE LET node == nodes[i + 1] IN
         IF node.type = "tag" /\ node.tagname \in StructuralTags
         THEN OpenBetween(nodes, i + 1, q, depth + 1)
         ELSE IF node.type = "tag" /\ node.tagname \in EndTags /\ depth > 0
         THEN OpenBetween(nodes, i + 1, q, depth - 1)
         ELSE OpenBetween(nodes, i + 1, q, depth)

SkipReturns ==
    /\ stack # <<>>
    /\ stack[Len(stack)].fn = "ignoreUntilAnyTagNode"
    /\ stack' = SubSeq(stack, 1, Len(stack) - 1)
    /\ ret'.err = ""

C29_SkipStopsAtOwnTerminator ==
    [][SkipReturns
         => LET f == stack[Len(stack) - 1] IN
            OpenBetween(templates[ecs[f.ec].template].nodes, f.tag_pos + 1,
                        ecs'[f.ec].node_pos, 0) = 0]_vars

\* C30: skipping nodes with ignoreUntilAnyTagNode changes only the cursor.
\* While a scan of ignoreUntilAnyTagNode is running, with the Ignore hooks
\* and the scans it starts for the for loops, if tags and other constructs
\* in the skipped region, no step changes the Context (forloop and forloops
\* included), the loop records, the expressions of the templates, the
\* block overrides or the output rendered so far by the running tags, and
\* the scan returns no output.
IsScan(f) == f.fn = "ignoreUntilAnyTagNode"
Skipping == SelectSeq(stack, IsScan) # <<>>
\* The frames below the outermost running scan
BelowScan(stk) ==
    SubSeq(stk, 1, (CHOOSE k \in 1..Len(stk) :
                        IsScan(stk[k]) /\ \A j \in 1..(k - 1) : ~IsScan(stk[j])) - 1)

OnlyCursorChanges ==
    /\ ctx' = ctx
    /\ heap' = heap
    /\ templates' = templates
    /\ internal_contexts' = internal_contexts
    /\ response' = response
    /\ Len(ecs') = Len(ecs)
    /\ \A e \in 1..Len(ecs) : ecs'[e] = [ecs[e] EXCEPT !.node_pos = ecs'[e].node_pos]
    /\ SubSeq(stack', 1, Len(BelowScan(stack))) = BelowScan(stack)
    /\ ret' = ret \/ ret'.out = <<>>

C30_SkipChangesOnlyCursor == [][Skipping => OnlyCursorChanges]_vars

\* C30 is exercised: inside a running loop, with forloop and forcounter
\* bound, a skipped if branch holds a for loop, and the scan of the Ignore
\* hook of that loop has returned at its endfor
C30_Witness ==
    /\ input.family = "skip"
    /\ Len(SelectSeq(stack, IsScan)) = 1
    /\ stack[Len(stack)].fn = "tagForIgnore"
    /\ stack[Len(stack)].pc = "ret1"
    /\ ret.err = ""
    /\ ret.tn.tagname = sEndfor
    /\ sForloop \in DOMAIN ctx
    /\ ctx[sForcounter] = VInt(1)

\* C31: the filters of a chain run strictly left to right, and when the k-th
\* filter runs the chain context records exactly the names of the k-1 filters
\* before it, in order; a filter registered without a function is recorded
\* and leaves the value unchanged; every evaluation starts with an empty
\* record.
NamesBefore(e, j) == [k \in 1..(j - 1) |-> e.filters[k].name]

\* The evaluation of goroutine g is in the loop over the filters
InChain(l) == l.pc = "filters" \/ (l.pc \in {"args", "store", "call"} /\ l.at = "filter")
BeforeChain(l) == l.pc = "root" \/ (l.pc \in {"args", "store", "call"} /\ l.at = "root")

ChainRecord ==
    \A g \in Goroutines :
        /\ BeforeChain(gs[g]) => gs[g].applied_filters = <<>>
        /\ InChain(gs[g]) =>
              /\ gs[g].j \in 1..(Len(SharedExpr.filters) + 1)
              /\ gs[g].applied_filters = NamesBefore(SharedExpr, gs[g].j)

ChainStep ==
    \A g \in Goroutines :
        (InChain(gs[g]) /\ InChain(gs'[g])) =>
            /\ gs'[g].j \in {gs[g].j, gs[g].j + 1}
            /\ (/\ gs[g].pc = "filters"
                /\ gs[g].j <= Len(SharedExpr.filters)
                /\ ~FilterHasFn(SharedExpr.filters[gs[g].j].name)
                /\ gs'[g] # gs[g])
                   => /\ gs'[g].j = gs[g].j + 1
                      /\ gs'[g].value = gs[g].value

C31_ChainLeftToRight == []ChainRecord /\ [][ChainStep]_vars

\* C31 is exercised: the third filter of u|lower|unsafe|upper is about to be
\* called, after the marker filter unsafe was passed
C31_Witness ==
    /\ input.family = "step"
    /\ \E g \in Goroutines :
          /\ gs[g].pc = "call"
          /\ gs[g].at = "filter"
          /\ gs[g].j = 3
          /\ gs[g].applied_filters = <<sLowerF, sUnsafe>>

\* C32: in a chain of inheritance (the child extends mid, mid extends base2)
\* the output shows for each block the content of the most derived template
\* that defines it: block a, which mid defines as well, shows the child's
\* content when the child defines it and mid's content otherwise; block b
\* shows the child's content or that of base2.
MostDerived(shape, blockname, text, inherited) ==
    IF blockname \in shape.defines THEN text ELSE inherited

C32_MostDerivedWins ==
    (Rendered /\ input.family = "extends" /\ input.shape.base = sMid)
        => /\ ret.err = ""
           /\ ret.out = <<"A">> \o MostDerived(input.shape, sA, <<"X">>, <<"M">>) \o <<"B">>
                        \o MostDerived(input.shape, sB, <<"Y">>, <<"2">>) \o <<"C">>

\* C33: a for loop leaves every Context variable that existed before the loop
\* with its value once the loop has ended, also a variable with the name of
\* the loop variable of for <var> in <expr>: when a render has returned
\* without error, every variable of the Context the render was called with
\* is bound to its value.
C33_LoopKeepsContext ==
    (Rendered /\ ret.err = "")
        => \E c \in input.contexts :
              \A k \in DOMAIN c : k \in DOMAIN ctx /\ ctx[k] = c[k]

\* C34: the form for <var> in <expr> is recognised by the keyword in standing
\* between the variable and the expression, and <var> is the whole identifier
\* before it: for line in lines binds line to each element of lines, and
\* for linecount, whose name only holds the letters in, is the count form.
\* Every running loop of these tags has the form and the loop variable of
\* its tag, and the render returns the bodies.
C34_ForInKeyword ==
    input.family = "forin"
        => /\ \A k \in 1..Len(ActiveLoops) :
                 /\ ActiveLoops[k].form = input.shape.form
                 /\ ActiveLoops[k].varname = input.shape.varname
           /\ Rendered => ret = RetOut(input.shape.out)

C36_NoRawAngle ==
    (input.family = "escape" /\ Rendered /\ ret.err = "")
        => \A i \in 1..Len(ret.out) : ret.out[i] \notin {"<", ">"}

\* C37: an if condition that combines && and || is evaluated with && binding
\* tighter than ||: for all booleans a, b, c the condition a || b && c has
\* the value of a || (b && c).
C37_AndBindsTighter ==
    (input.family = "prec" /\ Rendered)
        => ret = RetOut(IF input.shape.a \/ (input.shape.b /\ input.shape.c)
                        THEN <<"Y">> ELSE <<"N">>)

\* C38: the remove tag deletes from its rendered body every occurrence of
\* each pattern, applying the patterns one after the other in the order
\* written (a later pattern works on the result of the earlier ones), and
\* with no pattern given it deletes every space, tab, newline and carriage
\* return.
C38_RemovePatterns ==
    (input.family = "remove" /\ Rendered) => ret = RetOut(input.shape.out)

\* A render of `{% remove "bb","aa" %}abba{% endremove %}` has ended: the
\* second pattern found its occurrence only after the first was deleted
C38_Witness ==
    /\ input.family = "remove" /\ Rendered /\ ret.err = "" /\ ret.out = <<>>
    /\ Len(input.src) < 45

RECURSIVE ExpectedNodes(_, _)
\* The nodes of a source of segments, as [type, content]: run is the plain
\* text since the last comment or node; a comment ends the run and gives no
\* node, a node ends the run and follows it
RunNode(run) == IF run = <<>> THEN <<>> ELSE <<[type |-> "content", content |-> run]>>
ExpectedNodes(shape, run) ==
    IF shape = <<>> THEN RunNode(run)
    ELSE LET seg == Segments[Head(shape)] IN
         CASE seg.kind = "text" -> ExpectedNodes(Tail(shape), run \o seg.text)
           [] seg.kind = "comment" -> RunNode(run) \o ExpectedNodes(Tail(shape), <<>>)
           [] OTHER -> RunNode(run) \o <<[type |-> seg.kind, content |-> seg.content]>>
                       \o ExpectedNodes(Tail(shape), <<>>)

\* C39: everything between {# and the next #} is discarded, across lines: it
\* produces no node, openers and closers of expressions and tags inside a
\* comment are not interpreted, and the content before and after the comment
\* is kept, in order, as non-empty Content nodes.
C39_CommentsDiscarded ==
    (input.family = "comment" /\ ParseReturned)
        => /\ ret.err = ""
           /\ Len(templates) = 1
           /\ [i \in 1..Len(templates[1].nodes) |->
                  [type |-> templates[1].nodes[i].type,
                   content |-> templates[1].nodes[i].content]]
              = ExpectedNodes(input.shape, <<>>)

\* A source with text, a comment that holds openers and a newline, and text
\* again has been parsed into two Content nodes
C39_Witness ==
    /\ input.family = "comment" /\ ParseReturned
    /\ Len(input.shape) = 3
    /\ Segments[input.shape[1]].kind = "text"
    /\ Segments[input.shape[2]].kind = "comment" /\ Len(Segments[input.shape[2]].text) > 10
    /\ Segments[input.shape[3]].kind = "text"
    /\ Len(templates) = 1 /\ Len(templates[1].nodes) = 2

TokenizerStates == {"processContent", "processComment", "processFilter", "processTag"}

\* A call of a state function moves the position forward or ends the loop
TokenizerProgress ==
    parser.state \in TokenizerStates
        => \/ parser'.state = ""
           \/ parser'.state \in TokenizerStates /\ parser'.t.pos > parser.t.pos

RECURSIVE OccurFrom(_, _, _, _)
\* The contents of the nodes i.. occur in raw one after the other, without
\* overlap, from the offset from on (each at its first occurrence)
OccurAt(raw, content, o) ==
    o + Len(content) <= Len(raw) /\ SubSeq(raw, o + 1, o + Len(content)) = content
OccurFrom(raw, nodes, i, from) ==
    IF i > Len(nodes) THEN TRUE
    ELSE LET os == {o \in from..Len(raw) : OccurAt(raw, nodes[i].content, o)} IN
         /\ os # {}
         /\ LET first == CHOOSE o \in os : \A q \in os : o <= q IN
            OccurFrom(raw, nodes, i + 1, first + Len(nodes[i].content))

\* The nodes are in the order of the source: their contents occur in it one
\* after the other, and their lines and columns grow
SourceOrder(raw, nodes) ==
    /\ OccurFrom(raw, nodes, 1, 0)
    /\ \A i \in 1..(Len(nodes) - 1) :
          \/ nodes[i].line < nodes[i + 1].line
          \/ nodes[i].line = nodes[i + 1].line /\ nodes[i].col < nodes[i + 1].col

ParseEnd ==
    ParseReturned
        => \/ ret.err # "" /\ templates = <<>>
           \/ ret.err = "" /\ Len(templates) = 1
              /\ SourceOrder(input.src, templates[1].nodes)

\* C40: parsing terminates for every source: each tokenizer step either
\* consumes at least one character or stops, so the number of steps is
\* bounded by the source length, and it ends either with a parse error or with
\* the node list holding the nodes in source order.
C40_ParsingTerminates ==
    /\ [](parser.t.pos <= Len(input.src))
    /\ [][TokenizerProgress]_vars
    /\ []ParseEnd

\* FromString has returned a template with three nodes
C40_Witness ==
    /\ input.family = "parse" /\ ParseReturned /\ ret.err = ""
    /\ Len(templates) = 1 /\ Len(templates[1].nodes) = 3
    /\ parser.t.pos = Len(input.src)

====
